---- MODULE Spec2Model ----
(***************************************************************************)
(* wa-auth-store: Baileys credentials cached in Redis with a database      *)
(* behind it (BaileysAuthStore over BaileysRedisAdapter and                *)
(* BaileysOrmAdapter), and the RedisMemoryManager that tracks session      *)
(* accesses and evicts sessions from Redis.                                *)
(*                                                                         *)
(* Every handler is one action.  A handler is written as a function from   *)
(* a "world" (the Redis contents, the database rows, the manager's tracker *)
(* map, and the bookkeeping of one invocation) to a world, so that a       *)
(* handler that calls another is the composition of the two.               *)
(***************************************************************************)
EXTENDS Integers, Sequences, FiniteSets, TLC

VARIABLES
  redis,            \* Redis: key name -> entry (a string value or a hash), only the keys that exist
  db,               \* the credential table: session id -> row or NoRow
  ormConfigured,    \* BaileysAuthStore.ormAdapter is set
  sessionMetadata,  \* RedisMemoryManager.sessionMetadata: a Map, kept in insertion order
  checkInterval,    \* RedisMemoryManager.checkInterval # null (the manager holds a timer handle)
  timers,           \* the number of interval timers scheduled by start() and not cleared
  config,           \* RedisMemoryManager.config
  now,              \* Date.now(), in milliseconds
  inflight,         \* the calls of the manager that are awaiting Redis: sweeps, start, stop
  saved,            \* history: session -> the record of its last successful synced saveCreds
  last              \* history: what the last handler was, what it was given, what it returned

vars ==
  <<redis, db, ormConfigured, sessionMetadata, checkInterval, timers, config, now, inflight,
    saved, last>>

-----------------------------------------------------------------------------
(* Bounds of the model *)

\* a Redis or database call fails only if it is among the first MaxFailAt calls of a handler
MaxFailAt == 3
MaxDbFailAt == 2
\* the clock advances MaxTicks times, by TickMs each
MaxTicks == 3
\* a tracked session is accessed at most MaxAccessCount times
MaxAccessCount == 2

\* start() is called at most MaxTimers times without a stop()
MaxTimers == 2
\* at most MaxInFlight sweeps are awaiting Redis at a time
MaxInFlight == 1
\* at most MaxOverlap sweeps are awaiting Redis at a time where sweeps overlap
MaxOverlap == 2

-----------------------------------------------------------------------------
(* JavaScript values.  Every value is a record with a tag t. *)

Undefined == [t |-> "undefined"]
Null == [t |-> "null"]
\* an opaque JSON object, named by its content
Obj(x) == [t |-> "object", v |-> x]
\* the object {}
EmptyObj == Obj("{}")
\* an object used as a map, field name -> value
MapObj(m) == [t |-> "map", m |-> m]
EmptyMap == [f \in {} |-> Null]

Truthy(v) == v.t \notin {"undefined", "null"}

\* JSON.stringify(value, BufferJSON.replacer): a JSON text, or undefined for undefined
JSONstringify(v) ==
  IF v.t = "undefined" THEN Undefined
  ELSE IF v.t = "map"
       THEN [t |-> "json",
             of |-> MapObj([f \in {g \in DOMAIN v.m : v.m[g].t # "undefined"} |-> v.m[f]])]
       ELSE [t |-> "json", of |-> v]

\* JSON.parse(text, BufferJSON.reviver)
JSONparse(j) == j.of

\* getStringifyData / getParseData of BaileysOrmAdapter: undefined does not parse, so {}
getParseData(data) ==
  LET s == JSONstringify(data)
  IN IF s.t = "undefined" THEN EmptyObj ELSE JSONparse(s)

\* Partial<BaileysCredential>
Credential(creds, keys, sessionId) ==
  [t |-> "credential", creds |-> creds, keys |-> keys, sessionId |-> sessionId]

\* CredentialOptions: ttl = 0 stands for no ttl
Options(ttl, sync) == [ttl |-> ttl, syncToDatabase |-> sync]
NoOptions == Options(0, "undefined")

-----------------------------------------------------------------------------
(* Key names *)

\* getRedisKeyWhatsapp, were the session id left out of the keys
getRedisKeyWhatsapp_Shared(sessionId) ==
  [CREDENTIALS |-> "wa:auth:creds", KEYS |-> "wa:auth:keys"]

getRedisKeyWhatsapp(sessionId) ==
  [CREDENTIALS |-> "wa:auth:" \o sessionId \o ":creds",
   KEYS |-> "wa:auth:" \o sessionId \o ":keys"]

getRedisKeys(sessionId) ==
  [CREDENTIALS |-> "wa_creds:" \o sessionId,
   KEYS |-> "wa_keys:" \o sessionId]

metadataKey == "__wa_auth_store:metadata"

FieldName(type, id) == type \o "-" \o id

-----------------------------------------------------------------------------
(* The world of one handler invocation *)

World(rfail, dfail) ==
  [redis |-> redis, db |-> db, meta |-> sessionMetadata,
   err |-> "none",       \* the exception in flight: none, redis, db
   rfail |-> rfail,      \* which Redis calls of this invocation fail, by ordinal
   rn |-> 0,             \* Redis calls issued
   dfail |-> dfail,      \* which database calls fail
   dn |-> 0,             \* database calls issued
   ret |-> Undefined,    \* the value of the last read
   pass |-> "none",      \* the pass of the sweep that is running
   trace |-> << >>]      \* what the sweep did: memory readings and evictions, in order

Throws(w) == w.err # "none"

RedisCall(w) ==
  LET n == w.rn + 1
  IN [w EXCEPT !.rn = n, !.err = IF n \in w.rfail THEN "redis" ELSE "none"]

DbCall(w) ==
  LET n == w.dn + 1
  IN [w EXCEPT !.dn = n, !.err = IF n \in w.dfail THEN "db" ELSE "none"]

Without(f, ks) == [k \in DOMAIN f \ ks |-> f[k]]
With(f, k, v) == [x \in DOMAIN f \cup {k} |-> IF x = k THEN v ELSE f[x]]
Merge(f, g) == [x \in DOMAIN f \cup DOMAIN g |-> IF x \in DOMAIN g THEN g[x] ELSE f[x]]

StringEntry(v, ttl) == [t |-> "string", v |-> v, ttl |-> ttl]
HashEntry(h, ttl) == [t |-> "hash", h |-> h, ttl |-> ttl]

-----------------------------------------------------------------------------
(* Redis commands, as ioredis runs them *)

redisGet(w, key) ==
  IF Throws(w) THEN w
  ELSE LET c == RedisCall(w)
       IN IF Throws(c) THEN c
          ELSE [c EXCEPT !.ret = IF key \in DOMAIN c.redis THEN c.redis[key].v ELSE Null]

redisSet(w, key, value) ==
  IF Throws(w) THEN w
  ELSE LET c == RedisCall(w)
       IN IF Throws(c) THEN c
          ELSE [c EXCEPT !.redis = With(c.redis, key, StringEntry(value, 0))]

redisSetex(w, key, ttl, value) ==
  IF Throws(w) THEN w
  ELSE LET c == RedisCall(w)
       IN IF Throws(c) THEN c
          ELSE [c EXCEPT !.redis = With(c.redis, key, StringEntry(value, ttl))]

redisHgetall(w, key) ==
  IF Throws(w) THEN w
  ELSE LET c == RedisCall(w)
       IN IF Throws(c) THEN c
          ELSE [c EXCEPT !.ret = MapObj(IF key \in DOMAIN c.redis THEN c.redis[key].h ELSE EmptyMap)]

\* HMGET: the value of each field that exists (a missing field reads as nil)
redisHmget(w, key, fields) ==
  IF Throws(w) THEN w
  ELSE LET c == RedisCall(w)
           h == IF key \in DOMAIN c.redis THEN c.redis[key].h ELSE EmptyMap
       IN IF Throws(c) THEN c
          ELSE [c EXCEPT !.ret = MapObj([f \in fields \cap DOMAIN h |-> h[f]])]

\* HSET creates the hash without expiry, or merges into it and keeps its expiry
redisHset(w, key, obj) ==
  IF Throws(w) THEN w
  ELSE LET c == RedisCall(w)
           old == IF key \in DOMAIN c.redis THEN c.redis[key] ELSE HashEntry(EmptyMap, 0)
       IN IF Throws(c) THEN c
          ELSE [c EXCEPT !.redis = With(c.redis, key, HashEntry(Merge(old.h, obj), old.ttl))]

\* HDEL: a hash that loses its last field is removed
redisHdel(w, key, fields) ==
  IF Throws(w) THEN w
  ELSE LET c == RedisCall(w)
           h == IF key \in DOMAIN c.redis THEN Without(c.redis[key].h, fields) ELSE EmptyMap
       IN IF Throws(c) THEN c
          ELSE IF key \notin DOMAIN c.redis THEN c
          ELSE IF DOMAIN h = {} THEN [c EXCEPT !.redis = Without(c.redis, {key})]
          ELSE [c EXCEPT !.redis = With(c.redis, key, HashEntry(h, c.redis[key].ttl))]

redisExpire(w, key, ttl) ==
  IF Throws(w) THEN w
  ELSE LET c == RedisCall(w)
       IN IF Throws(c) THEN c
          ELSE IF key \notin DOMAIN c.redis THEN c
          ELSE [c EXCEPT !.redis = With(c.redis, key, [c.redis[key] EXCEPT !.ttl = ttl])]

redisDel(w, keys) ==
  IF Throws(w) THEN w
  ELSE LET c == RedisCall(w)
       IN IF Throws(c) THEN c
          ELSE [c EXCEPT !.redis = Without(c.redis, keys)]

-----------------------------------------------------------------------------
(* Database calls, as the MikroORM EntityManager runs them *)

NoRow == [t |-> "norow"]
Row(creds, keys) == [t |-> "row", creds |-> creds, keys |-> keys]

emFindOne(w, sessionId) ==
  IF Throws(w) THEN w
  ELSE LET c == DbCall(w)
       IN IF Throws(c) THEN c ELSE [c EXCEPT !.ret = c.db[sessionId]]

emPersistAndFlush(w, sessionId, row) ==
  IF Throws(w) THEN w
  ELSE LET c == DbCall(w)
       IN IF Throws(c) THEN c ELSE [c EXCEPT !.db[sessionId] = row]

emNativeDelete(w, sessionIds) ==
  IF Throws(w) THEN w
  ELSE LET c == DbCall(w)
       IN IF Throws(c) THEN c
          ELSE [c EXCEPT !.db = [s \in DOMAIN c.db |-> IF s \in sessionIds THEN NoRow ELSE c.db[s]]]

-----------------------------------------------------------------------------
(* BaileysRedisAdapter *)

Redis_saveCreds(w, sessionId, credential, options) ==
  LET k == getRedisKeyWhatsapp(sessionId)
      ttl == options.ttl
      w1 == IF Truthy(credential.creds)
            THEN IF ttl > 0
                 THEN redisSetex(w, k.CREDENTIALS, ttl, JSONstringify(credential.creds))
                 ELSE redisSet(w, k.CREDENTIALS, JSONstringify(credential.creds))
            ELSE w
  IN IF Truthy(credential.keys) /\ DOMAIN credential.keys.m # {}
     THEN LET keysObj == [f \in DOMAIN credential.keys.m |-> JSONstringify(credential.keys.m[f])]
              h == redisHset(w1, k.KEYS, keysObj)
          IN IF ttl > 0 THEN redisExpire(h, k.KEYS, ttl) ELSE h
     ELSE w1

\* Redis_getCreds, were it to read the creds blob and leave the keys hash out
Redis_getCreds_CredsOnly(w, sessionId) ==
  LET k == getRedisKeyWhatsapp(sessionId)
      g == redisGet(w, k.CREDENTIALS)
      h == redisHgetall(g, k.KEYS)
  IN IF Throws(h) THEN h
     ELSE IF ~Truthy(g.ret) THEN [h EXCEPT !.ret = Null]
     ELSE [h EXCEPT !.ret = Credential(JSONparse(g.ret), Undefined, Undefined)]

Redis_getCreds(w, sessionId) ==
  LET k == getRedisKeyWhatsapp(sessionId)
      g == redisGet(w, k.CREDENTIALS)
      h == redisHgetall(g, k.KEYS)
      credsData == g.ret
      keysData == h.ret.m
  IN IF Throws(h) THEN h
     ELSE IF ~Truthy(credsData) /\ DOMAIN keysData = {} THEN [h EXCEPT !.ret = Null]
     ELSE [h EXCEPT !.ret =
             Credential(IF Truthy(credsData) THEN JSONparse(credsData) ELSE Undefined,
                        IF DOMAIN keysData # {}
                        THEN MapObj([f \in DOMAIN keysData |-> JSONparse(keysData[f])])
                        ELSE Undefined,
                        Undefined)]

\* Redis_deleteCreds, were it to delete the creds blob and leave the keys hash
Redis_deleteCreds_CredsOnly(w, sessionId) ==
  redisDel(w, {getRedisKeyWhatsapp(sessionId).CREDENTIALS})

Redis_deleteCreds(w, sessionId) ==
  LET k == getRedisKeyWhatsapp(sessionId)
  IN redisDel(w, {k.CREDENTIALS, k.KEYS})

\* ids is the set of the requested ids; the result maps the ids that resolved
Redis_getKeys(w, sessionId, type, ids) ==
  LET k == getRedisKeyWhatsapp(sessionId)
      v == redisHmget(w, k.KEYS, {FieldName(type, id) : id \in ids})
      values == v.ret.m
  IN IF Throws(w) THEN w
     ELSE IF ids = {} THEN [w EXCEPT !.ret = MapObj(EmptyMap)]
     ELSE IF Throws(v) THEN v
     ELSE [v EXCEPT !.ret =
             MapObj([id \in {i \in ids : FieldName(type, i) \in DOMAIN values}
                       |-> JSONparse(values[FieldName(type, id)])])]

\* data is the nested object flattened in its iteration order:
\* a sequence of [category, id, value]
RECURSIVE setKeysOps(_, _)
setKeysOps(data, i) ==
  IF i > Len(data) THEN EmptyMap
  ELSE LET e == data[i]
           rest == setKeysOps(data, i + 1)
           field == FieldName(e.category, e.id)
       IN IF Truthy(e.value) /\ field \notin DOMAIN rest
          THEN With(rest, field, [t |-> "json", of |-> e.value])
          ELSE rest

RECURSIVE setKeysHdels(_, _, _, _)
setKeysHdels(w, keysKey, data, i) ==
  IF i > Len(data) \/ Throws(w) THEN w
  ELSE LET e == data[i]
       IN setKeysHdels(IF Truthy(e.value) THEN w
                       ELSE redisHdel(w, keysKey, {FieldName(e.category, e.id)}),
                       keysKey, data, i + 1)

\* Redis_setKeys, were it to leave the field of an unset value in the hash
Redis_setKeys_NoHdel(w, sessionId, data, options) ==
  LET k == getRedisKeyWhatsapp(sessionId)
      ops == setKeysOps(data, 1)
  IN IF DOMAIN ops # {}
     THEN LET h == redisHset(w, k.KEYS, ops)
          IN IF options.ttl > 0 THEN redisExpire(h, k.KEYS, options.ttl) ELSE h
     ELSE w

Redis_setKeys(w, sessionId, data, options) ==
  LET k == getRedisKeyWhatsapp(sessionId)
      ops == setKeysOps(data, 1)
      d == setKeysHdels(w, k.KEYS, data, 1)
  IN IF DOMAIN ops # {}
     THEN LET h == redisHset(d, k.KEYS, ops)
          IN IF options.ttl > 0 THEN redisExpire(h, k.KEYS, options.ttl) ELSE h
     ELSE d

Redis_deleteKeys(w, sessionId, fields) ==
  LET k == getRedisKeyWhatsapp(sessionId)
  IN IF fields # {} THEN redisHdel(w, k.KEYS, fields) ELSE w

Redis_clearSession(w, sessionId) == Redis_deleteCreds(w, sessionId)

-----------------------------------------------------------------------------
(* BaileysOrmAdapter *)

Orm_saveCreds(w, sessionId, credential) ==
  LET f == emFindOne(w, sessionId)
      row == IF f.ret.t = "norow" THEN Row(Undefined, Undefined) ELSE f.ret
      row1 == IF credential.creds.t # "undefined"
              THEN [row EXCEPT !.creds = getParseData(credential.creds)] ELSE row
      row2 == IF credential.keys.t # "undefined"
              THEN [row1 EXCEPT !.keys = getParseData(credential.keys)] ELSE row1
  IN IF Throws(f) THEN f ELSE emPersistAndFlush(f, sessionId, row2)

Orm_getCreds(w, sessionId) ==
  LET f == emFindOne(w, sessionId)
      row == f.ret
  IN IF Throws(f) THEN f
     ELSE IF row.t = "norow" THEN [f EXCEPT !.ret = Null]
     ELSE [f EXCEPT !.ret =
             Credential(IF ~Truthy(row.creds) THEN EmptyObj ELSE getParseData(row.creds),
                        IF ~Truthy(row.keys) THEN MapObj(EmptyMap) ELSE getParseData(row.keys),
                        Obj(sessionId))]

Orm_deleteCreds(w, sessionId) == emNativeDelete(w, {sessionId})

Orm_getKeys(w, sessionId, type, ids) ==
  LET f == emFindOne(w, sessionId)
      row == f.ret
  IN IF Throws(f) THEN f
     ELSE IF row.t = "norow" \/ ~Truthy(row.keys) THEN [f EXCEPT !.ret = MapObj(EmptyMap)]
     ELSE [f EXCEPT !.ret =
             MapObj([id \in {i \in ids : /\ FieldName(type, i) \in DOMAIN row.keys.m
                                         /\ Truthy(row.keys.m[FieldName(type, i)])}
                       |-> getParseData(row.keys.m[FieldName(type, id)])])]

\* currentKeys after the loop over data: a set value is stored, an unset one deleted
RECURSIVE setKeysCurrent(_, _, _)
setKeysCurrent(currentKeys, data, i) ==
  IF i > Len(data) THEN currentKeys
  ELSE LET e == data[i]
           field == FieldName(e.category, e.id)
       IN setKeysCurrent(IF Truthy(e.value) THEN With(currentKeys, field, e.value)
                         ELSE Without(currentKeys, {field}),
                         data, i + 1)

Orm_setKeys(w, sessionId, data) ==
  LET f == emFindOne(w, sessionId)
      row == IF f.ret.t = "norow" THEN Row(Undefined, Undefined) ELSE f.ret
      currentKeys == IF Truthy(row.keys) THEN row.keys.m ELSE EmptyMap
  IN IF Throws(f) THEN f
     ELSE emPersistAndFlush(f, sessionId,
                            [row EXCEPT !.keys = MapObj(setKeysCurrent(currentKeys, data, 1))])

\* the row is persisted only when it exists and has keys
Orm_deleteKeys(w, sessionId, fields) ==
  LET f == emFindOne(w, sessionId)
      row == f.ret
  IN IF Throws(f) THEN f
     ELSE IF row.t = "row" /\ Truthy(row.keys)
     THEN emPersistAndFlush(f, sessionId, [row EXCEPT !.keys = MapObj(Without(@.m, fields))])
     ELSE f

Orm_clearAll(w) == emNativeDelete(w, DOMAIN w.db)

Orm_clearSession(w, sessionId) == Orm_deleteCreds(w, sessionId)

-----------------------------------------------------------------------------
(* BaileysAuthStore *)

RECURSIVE SeqOf(_)
SeqOf(S) == IF S = {} THEN << >> ELSE LET x == CHOOSE y \in S : TRUE IN <<x>> \o SeqOf(S \ {x})

\* Store_getCreds, were it to return what the database holds without writing it to Redis
Store_getCreds_NoWarm(w, sessionId) ==
  LET r == Redis_getCreds(w, sessionId)
  IN IF Throws(r) THEN r
     ELSE IF ~Truthy(r.ret) /\ ormConfigured THEN Orm_getCreds(r, sessionId)
     ELSE r

\* Store_getCreds, were it to turn to the database when the Redis read fails
Store_getCreds_FallsBack(w, sessionId) ==
  LET r == Redis_getCreds(w, sessionId)
  IN IF ormConfigured /\ (Throws(r) \/ ~Truthy(r.ret))
     THEN Orm_getCreds([r EXCEPT !.err = "none"], sessionId)
     ELSE r

Store_getCreds(w, sessionId) ==
  LET r == Redis_getCreds(w, sessionId)
  IN IF Throws(r) THEN r
     ELSE IF ~Truthy(r.ret) /\ ormConfigured
     THEN LET d == Orm_getCreds(r, sessionId)
          IN IF Throws(d) THEN d
             ELSE IF Truthy(d.ret)
             THEN [Redis_saveCreds(d, sessionId, d.ret, NoOptions) EXCEPT !.ret = d.ret]
             ELSE d
     ELSE r

\* Store_saveCreds, were it to catch the failure of the database write
Store_saveCreds_CatchesDb(w, sessionId, credential, options) ==
  LET r == Redis_saveCreds(w, sessionId, credential, options)
  IN IF options.syncToDatabase # "false" /\ ormConfigured /\ ~Throws(r)
     THEN [Orm_saveCreds(r, sessionId, credential) EXCEPT !.err = "none"]
     ELSE r

\* Store_saveCreds, were it to write the database before Redis
Store_saveCreds_DbFirst(w, sessionId, credential, options) ==
  LET d == IF options.syncToDatabase # "false" /\ ormConfigured
           THEN Orm_saveCreds(w, sessionId, credential)
           ELSE w
  IN Redis_saveCreds(d, sessionId, credential, options)

\* Store_saveCreds, were it to write the database whatever syncToDatabase says
Store_saveCreds_AlwaysSyncs(w, sessionId, credential, options) ==
  LET r == Redis_saveCreds(w, sessionId, credential, options)
  IN IF ormConfigured THEN Orm_saveCreds(r, sessionId, credential) ELSE r

Store_saveCreds(w, sessionId, credential, options) ==
  LET r == Redis_saveCreds(w, sessionId, credential, options)
  IN IF options.syncToDatabase # "false" /\ ormConfigured
     THEN Orm_saveCreds(r, sessionId, credential)
     ELSE r

\* Store_deleteCreds, were it to delete the row although the Redis delete failed
Store_deleteCreds_BestEffort(w, sessionId) ==
  LET r == Redis_deleteCreds(w, sessionId)
  IN IF ormConfigured
     THEN LET d == Orm_deleteCreds([r EXCEPT !.err = "none"], sessionId)
          IN IF Throws(r) THEN [d EXCEPT !.err = r.err] ELSE d
     ELSE r

Store_deleteCreds(w, sessionId) ==
  LET r == Redis_deleteCreds(w, sessionId)
  IN IF ormConfigured THEN Orm_deleteCreds(r, sessionId) ELSE r

\* Store_getKeys, were it to return the database values without writing them to Redis
Store_getKeys_NoCache(w, sessionId, type, ids) ==
  LET r == Redis_getKeys(w, sessionId, type, ids)
      result == r.ret.m
      missing == {id \in ids : id \notin DOMAIN result}
  IN IF Throws(r) THEN r
     ELSE IF missing # {} /\ ormConfigured
     THEN LET d == Orm_getKeys(r, sessionId, type, missing)
          IN IF Throws(d) THEN d
             ELSE [d EXCEPT !.ret = MapObj(Merge(result, d.ret.m))]
     ELSE r

Store_getKeys(w, sessionId, type, ids) ==
  LET r == Redis_getKeys(w, sessionId, type, ids)
      result == r.ret.m
      missing == {id \in ids : id \notin DOMAIN result}
  IN IF Throws(r) THEN r
     ELSE IF missing # {} /\ ormConfigured
     THEN LET d == Orm_getKeys(r, sessionId, type, missing)
              dbResult == d.ret.m
              keysToSet == SeqOf({[category |-> type, id |-> id, value |-> dbResult[id]]
                                    : id \in DOMAIN dbResult})
              c == IF DOMAIN dbResult # {}
                   THEN Redis_setKeys(d, sessionId, keysToSet, NoOptions)
                   ELSE d
          IN IF Throws(d) THEN d
             ELSE IF Throws(c) THEN c
             ELSE [c EXCEPT !.ret = MapObj(Merge(result, dbResult))]
     ELSE r

\* setKeys takes no options: the Redis adapter is called without a ttl
Store_setKeys(w, sessionId, data) ==
  LET r == Redis_setKeys(w, sessionId, data, NoOptions)
  IN IF ormConfigured THEN Orm_setKeys(r, sessionId, data) ELSE r

Store_deleteKeys(w, sessionId, fields) ==
  LET r == Redis_deleteKeys(w, sessionId, fields)
  IN IF ormConfigured THEN Orm_deleteKeys(r, sessionId, fields) ELSE r

Store_clearSession(w, sessionId) ==
  LET r == Redis_clearSession(w, sessionId)
  IN IF ormConfigured THEN Orm_clearSession(r, sessionId) ELSE r

\* Store_clearAll, were it to empty Redis as well
Store_clearAll_FlushesRedis(w) ==
  LET r == [w EXCEPT !.redis = [k \in {} |-> Null]]
  IN IF ormConfigured THEN Orm_clearAll(r) ELSE r

Store_clearAll(w) == IF ormConfigured THEN Orm_clearAll(w) ELSE w

-----------------------------------------------------------------------------
(* useBaileysAuthState, called without a memory manager *)

\* keysToStore: the set values of data, each through JSON.parse(JSON.stringify(value))
keysToStore(data) ==
  LET kept == SelectSeq(data, LAMBDA e : Truthy(e.value))
  IN [i \in 1..Len(kept) |-> [kept[i] EXCEPT !.value = JSONparse(JSONstringify(@))]]

\* saveCreds of the returned state: ttl and syncToDatabase come from the helper's options
AuthState_saveCreds(w, sessionId, creds, options) ==
  Store_saveCreds(w, sessionId, Credential(creds, Undefined, Undefined),
                  Options(options.ttl,
                          IF options.syncToDatabase # "false" THEN "true" ELSE "false"))

\* state.keys.set: the { ttl } it hands to authStore.setKeys is a third argument that
\* BaileysAuthStore.setKeys does not declare
AuthState_keysSet(w, sessionId, data, options) ==
  Store_setKeys(w, sessionId, keysToStore(data))

-----------------------------------------------------------------------------
(* Inputs *)

AllSessions == {"s1", "s2", "s3"}
StoreSessions == {"s1", "s2"}

\* the ttl option, in seconds, when one is given
Ttl == CHOOSE n \in {60} : TRUE
\* the clock advances by TickMs milliseconds at a time
TickMs == CHOOSE n \in {500} : TRUE
\* the bytes Redis reports used for a string entry and for a field of a hash
StringBytes == CHOOSE n \in {300} : TRUE
FieldBytes == CHOOSE n \in {100} : TRUE

c1 == Obj("c1")
c2 == Obj("c2")
v1 == Obj("v1")
v2 == Obj("v2")
KeyType == "pre-key"
KeyIds == {"1", "2"}

\* what saveCreds is given: a record and its options
SaveInputs(s) ==
  IF s = "s1"
  THEN {<<Credential(c1, Undefined, Undefined), NoOptions>>,
        <<Credential(c2, Undefined, Undefined), Options(Ttl, "undefined")>>,
        <<Credential(Undefined, MapObj([f \in {FieldName(KeyType, "1")} |-> v1]), Undefined),
          NoOptions>>,
        <<Credential(c1, MapObj([f \in {FieldName(KeyType, "1")} |-> v1]), Undefined),
          Options(Ttl, "undefined")>>,
        <<Credential(c1, Undefined, Undefined), Options(0, "false")>>}
  ELSE {<<Credential(c1, Undefined, Undefined), NoOptions>>,
        <<Credential(c2, Undefined, Undefined), Options(0, "true")>>}

\* which calls of an invocation fail: none, one Redis call, or one database call
NoFailure == <<{}, {}>>
FailCases ==
  {NoFailure} \cup {<<{i}, {}>> : i \in 1..MaxFailAt} \cup {<<{}, {j}>> : j \in 1..MaxDbFailAt}
FailCasesOf(s) == IF s = "s1" THEN FailCases ELSE {NoFailure}

-----------------------------------------------------------------------------
(* History *)

\* what one stored record holds of session s, in either store
HasRedisData(r, s) ==
  \/ getRedisKeyWhatsapp(s).CREDENTIALS \in DOMAIN r
  \/ getRedisKeyWhatsapp(s).KEYS \in DOMAIN r

\* the handler this one follows, when it is on the same session and succeeded
Follows(s) ==
  IF /\ last.op \in {"saveCreds", "deleteCreds", "clearSession"}
     /\ last.sessionId = s
     /\ last.err = "none"
  THEN [op |-> last.op, had |-> last.op # "saveCreds" /\ last.had]
  ELSE [op |-> "other", had |-> FALSE]

\* the keys hash of session s in Redis, parsed: field -> value
HashOf(rds, s) ==
  LET key == getRedisKeyWhatsapp(s).KEYS
  IN IF key \in DOMAIN rds
     THEN [f \in DOMAIN rds[key].h |-> JSONparse(rds[key].h[f])]
     ELSE EmptyMap

\* the keys of the row of session s: field -> value
RowKeysOf(d, s) ==
  IF d[s] # NoRow /\ Truthy(d[s].keys) THEN d[s].keys.m ELSE EmptyMap

\* the setKeys this handler follows, when it is on the same session and succeeded
AfterSetKeys(s) ==
  IF last.op = "setKeys" /\ last.sessionId = s /\ last.err = "none"
  THEN [op |-> "setKeys", data |-> last.data, had |-> last.had]
  ELSE [op |-> "other"]

\* the calls of an invocation that were made to fail
Hit(fail, n) == fail \cap 1..n

Commit(w) ==
  /\ redis' = w.redis
  /\ db' = w.db
  /\ sessionMetadata' = w.meta

-----------------------------------------------------------------------------
(* The handlers of BaileysAuthStore, one action each *)

SaveCreds(s, r, o, rf, df) ==
  LET w == Store_saveCreds(World(rf, df), s, r, o)
  IN /\ Commit(w)
     /\ saved' = [saved EXCEPT ![s] =
                    IF ~Throws(w) /\ o.syncToDatabase # "false" /\ ormConfigured
                    THEN r ELSE Null]
     /\ last' = [op |-> "saveCreds", sessionId |-> s, arg |-> r, options |-> o,
                 err |-> w.err, rhit |-> Hit(rf, w.rn), dhit |-> Hit(df, w.dn),
                 dn |-> w.dn]
     /\ UNCHANGED <<ormConfigured, checkInterval, timers, config, now, inflight>>

GetCreds(s, rf, df) ==
  LET w == Store_getCreds(World(rf, df), s)
  IN /\ Commit(w)
     /\ last' = [op |-> "getCreds", sessionId |-> s,
                 ret |-> IF Throws(w) THEN Undefined ELSE w.ret,
                 err |-> w.err, rhit |-> Hit(rf, w.rn), dhit |-> Hit(df, w.dn),
                 dn |-> w.dn, follows |-> Follows(s)]
     /\ UNCHANGED <<ormConfigured, checkInterval, timers, config, now, saved, inflight>>

DeleteCreds(s, rf, df) ==
  LET w == Store_deleteCreds(World(rf, df), s)
  IN /\ Commit(w)
     /\ saved' = [saved EXCEPT ![s] = Null]
     /\ last' = [op |-> "deleteCreds", sessionId |-> s, err |-> w.err,
                 rhit |-> Hit(rf, w.rn), dhit |-> Hit(df, w.dn), dn |-> w.dn,
                 had |-> HasRedisData(redis, s) \/ db[s] # NoRow]
     /\ UNCHANGED <<ormConfigured, checkInterval, timers, config, now, inflight>>

ClearSession(s, rf, df) ==
  LET w == Store_clearSession(World(rf, df), s)
  IN /\ Commit(w)
     /\ saved' = [saved EXCEPT ![s] = Null]
     /\ last' = [op |-> "clearSession", sessionId |-> s, err |-> w.err,
                 rhit |-> Hit(rf, w.rn), dhit |-> Hit(df, w.dn), dn |-> w.dn,
                 had |-> HasRedisData(redis, s) \/ db[s] # NoRow]
     /\ UNCHANGED <<ormConfigured, checkInterval, timers, config, now, inflight>>

DeleteKeys(s, fields, rf, df) ==
  LET w == Store_deleteKeys(World(rf, df), s, fields)
  IN /\ Commit(w)
     /\ last' = [op |-> "deleteKeys", sessionId |-> s, fields |-> fields, err |-> w.err,
                 rhit |-> Hit(rf, w.rn), dhit |-> Hit(df, w.dn), dn |-> w.dn]
     /\ UNCHANGED <<ormConfigured, checkInterval, timers, config, now, saved, inflight>>

ClearAll(rf, df) ==
  LET w == Store_clearAll(World(rf, df))
  IN /\ Commit(w)
     /\ saved' = [s \in AllSessions |-> Null]
     /\ last' = [op |-> "clearAll", err |-> w.err, rhit |-> Hit(rf, w.rn),
                 dhit |-> Hit(df, w.dn), dn |-> w.dn]
     /\ UNCHANGED <<ormConfigured, checkInterval, timers, config, now, inflight>>

GetKeys(s, type, ids, rf, df) ==
  LET w == Store_getKeys(World(rf, df), s, type, ids)
  IN /\ Commit(w)
     /\ last' = [op |-> "getKeys", sessionId |-> s, type |-> type, ids |-> ids,
                 ret |-> IF Throws(w) THEN Undefined ELSE w.ret,
                 err |-> w.err, rhit |-> Hit(rf, w.rn), dhit |-> Hit(df, w.dn),
                 dn |-> w.dn, after |-> AfterSetKeys(s)]
     /\ UNCHANGED <<ormConfigured, checkInterval, timers, config, now, saved, inflight>>

SetKeys(s, data, rf, df) ==
  LET w == Store_setKeys(World(rf, df), s, data)
  IN /\ Commit(w)
     /\ last' = [op |-> "setKeys", sessionId |-> s, data |-> data, err |-> w.err,
                 rhit |-> Hit(rf, w.rn), dhit |-> Hit(df, w.dn), dn |-> w.dn,
                 had |-> HashOf(redis, s)]
     /\ UNCHANGED <<ormConfigured, checkInterval, timers, config, now, saved, inflight>>

StateSaveCreds(s, creds, o, rf, df) ==
  LET w == AuthState_saveCreds(World(rf, df), s, creds, o)
  IN /\ Commit(w)
     /\ saved' = [saved EXCEPT ![s] =
                    IF ~Throws(w) /\ o.syncToDatabase # "false" /\ ormConfigured
                    THEN Credential(creds, Undefined, Undefined) ELSE Null]
     /\ last' = [op |-> "state.saveCreds", sessionId |-> s, options |-> o, err |-> w.err,
                 rhit |-> Hit(rf, w.rn), dhit |-> Hit(df, w.dn), dn |-> w.dn]
     /\ UNCHANGED <<ormConfigured, checkInterval, timers, config, now, inflight>>

StateKeysSet(s, data, o, rf, df) ==
  LET w == AuthState_keysSet(World(rf, df), s, data, o)
  IN /\ Commit(w)
     /\ last' = [op |-> "state.keys.set", sessionId |-> s, data |-> data, options |-> o,
                 err |-> w.err, rhit |-> Hit(rf, w.rn), dhit |-> Hit(df, w.dn),
                 dn |-> w.dn]
     /\ UNCHANGED <<ormConfigured, checkInterval, timers, config, now, saved, inflight>>

\* Redis drops a key whose expiry (SETEX, EXPIRE) has come
Expire(key) ==
  /\ key \in DOMAIN redis
  /\ redis[key].ttl > 0
  /\ redis' = Without(redis, {key})
  /\ last' = [op |-> "expire", key |-> key, err |-> "none"]
  /\ UNCHANGED <<db, ormConfigured, sessionMetadata, checkInterval, timers, config, now, saved, inflight>>

-----------------------------------------------------------------------------
(* RedisMemoryManager *)

\* RedisMemoryConfig with the defaults of the constructor filled in
Configs ==
  {[maxMemoryBytes |-> 1000, evictionThreshold |-> 80, ttlInactivity |-> 1,
    checkIntervalMs |-> 500]}

\* configurations that the constructor takes as they are: a threshold above 100, a
\* check interval of 0 ms, a memory limit of 0 bytes
InvalidConfigs ==
  {[maxMemoryBytes |-> 1000, evictionThreshold |-> 150, ttlInactivity |-> 1,
    checkIntervalMs |-> 500],
   [maxMemoryBytes |-> 1000, evictionThreshold |-> 80, ttlInactivity |-> 1,
    checkIntervalMs |-> 0],
   [maxMemoryBytes |-> 0, evictionThreshold |-> 80, ttlInactivity |-> 1,
    checkIntervalMs |-> 500]}

SessionAccessMetadata(sessionId, lastAccess, accessCount, estimatedSize) ==
  [sessionId |-> sessionId, lastAccess |-> lastAccess, accessCount |-> accessCount,
   estimatedSize |-> estimatedSize]

\* Map operations on the tracker, a sequence without two entries of one session
Tracked(meta) == {meta[i].sessionId : i \in 1..Len(meta)}
IndexOf(meta, sessionId) == CHOOSE i \in 1..Len(meta) : meta[i].sessionId = sessionId
MapGet(meta, sessionId) == meta[IndexOf(meta, sessionId)]
MapSet(meta, m) ==
  IF m.sessionId \in Tracked(meta)
  THEN [meta EXCEPT ![IndexOf(meta, m.sessionId)] = m]
  ELSE Append(meta, m)
MapDelete(meta, sessionId) ==
  SelectSeq(meta, LAMBDA m : m.sessionId # sessionId)

\* trackAccess, were it to take the estimated size it is given even when it is 0
trackAccess_AlwaysSize(w, sessionId, estimatedSize) ==
  LET metadata == IF sessionId \in Tracked(w.meta)
                  THEN MapGet(w.meta, sessionId)
                  ELSE SessionAccessMetadata(sessionId, now, 0, 0)
      updated == [metadata EXCEPT
                    !.lastAccess = now,
                    !.accessCount = @ + 1,
                    !.estimatedSize = estimatedSize]
  IN [w EXCEPT !.meta = MapSet(w.meta, updated)]

trackAccess(w, sessionId, estimatedSize) ==
  LET metadata == IF sessionId \in Tracked(w.meta)
                  THEN MapGet(w.meta, sessionId)
                  ELSE SessionAccessMetadata(sessionId, now, 0, 0)
      updated == [metadata EXCEPT
                    !.lastAccess = now,
                    !.accessCount = @ + 1,
                    !.estimatedSize = IF estimatedSize > 0 THEN estimatedSize ELSE @]
  IN [w EXCEPT !.meta = MapSet(w.meta, updated)]

\* used_memory of INFO memory: what the entries Redis holds take
RECURSIVE UsedMemory(_)
UsedMemory(rds) ==
  IF DOMAIN rds = {} THEN 0
  ELSE LET key == CHOOSE k \in DOMAIN rds : TRUE
           e == rds[key]
       IN (IF e.t = "string" THEN StringBytes ELSE FieldBytes * Cardinality(DOMAIN e.h))
          + UsedMemory(Without(rds, {key}))

redisInfo(w) ==
  IF Throws(w) THEN w
  ELSE LET c == RedisCall(w)
       IN IF Throws(c) THEN c ELSE [c EXCEPT !.ret = UsedMemory(c.redis)]

\* percentUsed = (usedBytes / maxBytes) * 100 is kept as the pair it is computed from;
\* the comparisons are those of the quotient (for the thresholds of Configs the
\* double-precision product compares as the exact quotient does)
PercentGT(memory, percent) ==
  IF memory.maxBytes > 0 THEN memory.usedBytes * 100 > percent * memory.maxBytes
  ELSE IF memory.maxBytes = 0 THEN memory.usedBytes > 0
  ELSE memory.usedBytes * 100 < percent * memory.maxBytes

PercentLE(memory, percent) ==
  IF memory.maxBytes > 0 THEN memory.usedBytes * 100 <= percent * memory.maxBytes
  ELSE IF memory.maxBytes = 0 THEN FALSE
  ELSE memory.usedBytes * 100 >= percent * memory.maxBytes

\* getMemoryUsage, were a failed query read as a full Redis
getMemoryUsage_FailsFull(w) ==
  LET i == redisInfo(w)
      usedBytes == IF Throws(i) THEN config.maxMemoryBytes ELSE i.ret
  IN [i EXCEPT !.err = "none",
               !.ret = [usedBytes |-> usedBytes, maxBytes |-> config.maxMemoryBytes],
               !.trace = Append(@, [pass |-> "memory", failed |-> Throws(i),
                                    usedBytes |-> usedBytes])]

\* the failure of the query is caught: the reading is then 0 bytes, 0 percent
getMemoryUsage(w) ==
  LET i == redisInfo(w)
      usedBytes == IF Throws(i) THEN 0 ELSE i.ret
  IN [i EXCEPT !.err = "none",
               !.ret = [usedBytes |-> usedBytes, maxBytes |-> config.maxMemoryBytes],
               !.trace = Append(@, [pass |-> "memory", failed |-> Throws(i),
                                    usedBytes |-> usedBytes])]

\* evictSession, were it to delete the session's database row as well
evictSession_DeletesRow(w, sessionId) ==
  LET k == getRedisKeys(sessionId)
      d == redisDel(w, {k.CREDENTIALS, k.KEYS})
  IN [d EXCEPT !.err = "none",
               !.db = [@ EXCEPT ![sessionId] = NoRow],
               !.meta = IF Throws(d) THEN @ ELSE MapDelete(@, sessionId),
               !.trace = Append(@, [pass |-> w.pass, sessionId |-> sessionId,
                                    failed |-> Throws(d)])]

\* evictSession, were it to drop the tracker entry although a DEL failed
evictSession_DropsFailed(w, sessionId) ==
  LET k == getRedisKeys(sessionId)
      d1 == redisDel(w, {k.CREDENTIALS})
      d2 == redisDel([d1 EXCEPT !.err = "none"], {k.KEYS})
  IN [d2 EXCEPT !.err = "none",
                !.meta = MapDelete(@, sessionId),
                !.trace = Append(@, [pass |-> w.pass, sessionId |-> sessionId,
                                     failed |-> Throws(d1) \/ Throws(d2)])]

\* Promise.all of the two DEL: both are issued; the tracker entry goes only if both succeed
evictSession(w, sessionId) ==
  LET k == getRedisKeys(sessionId)
      d1 == redisDel(w, {k.CREDENTIALS})
      d2 == redisDel([d1 EXCEPT !.err = "none"], {k.KEYS})
      failed == Throws(d1) \/ Throws(d2)
  IN [d2 EXCEPT !.err = "none",
                !.meta = IF failed THEN @ ELSE MapDelete(@, sessionId),
                !.trace = Append(@, [pass |-> w.pass, sessionId |-> sessionId,
                                     failed |-> failed])]

\* the session ids of a sequence of entries, in order
SessionIds(seq) == [i \in 1..Len(seq) |-> seq[i].sessionId]

\* Array.prototype.sort is stable: entries of equal lastAccess keep the Map's order
RECURSIVE SortByLastAccess(_)
SortByLastAccess(seq) ==
  IF seq = << >> THEN << >>
  ELSE LET n == Len(seq)
           m == seq[n]
           front == SortByLastAccess(SubSeq(seq, 1, n - 1))
       IN SelectSeq(front, LAMBDA x : x.lastAccess <= m.lastAccess)
          \o <<m>>
          \o SelectSeq(front, LAMBDA x : x.lastAccess > m.lastAccess)

RECURSIVE evictLRULoop(_, _, _)
evictLRULoop(w, sortedSessions, i) ==
  IF i > Len(sortedSessions) THEN w
  ELSE LET memory == getMemoryUsage(w)
       IN IF PercentLE(memory.ret, config.evictionThreshold - 10) THEN memory
          ELSE evictLRULoop(evictSession(memory, sortedSessions[i].sessionId),
                            sortedSessions, i + 1)

evictLRU(w) ==
  evictLRULoop([w EXCEPT !.pass = "lru"], SortByLastAccess(w.meta), 1)

\* the Map is walked in its order; deleting the entry being visited skips no entry
RECURSIVE evictInactiveLoop(_, _, _)
evictInactiveLoop(w, entries, i) ==
  IF i > Len(entries) THEN w
  ELSE evictInactiveLoop(
         IF now - entries[i].lastAccess > config.ttlInactivity * 1000
         THEN evictSession(w, entries[i].sessionId)
         ELSE w,
         entries, i + 1)

evictInactive(w) ==
  evictInactiveLoop([w EXCEPT !.pass = "inactive"], w.meta, 1)

checkAndEvict(w) ==
  LET memory == getMemoryUsage(w)
  IN evictInactive(IF PercentGT(memory.ret, config.evictionThreshold)
                   THEN evictLRU(memory)
                   ELSE memory)

\* saveMetadata, were it to persist the session ids without their counters
saveMetadata_IdsOnly(w) ==
  LET data == [t |-> "array",
               a |-> [i \in 1..Len(w.meta) |->
                        SessionAccessMetadata(w.meta[i].sessionId, 0, 0, 0)]]
  IN [redisSet(w, metadataKey, JSONstringify(data)) EXCEPT !.err = "none"]

\* the failure of the write is caught
saveMetadata(w) ==
  LET data == [t |-> "array", a |-> w.meta]
  IN [redisSet(w, metadataKey, JSONstringify(data)) EXCEPT !.err = "none"]

RECURSIVE MapSetAll(_, _, _)
MapSetAll(meta, list, i) ==
  IF i > Len(list) THEN meta ELSE MapSetAll(MapSet(meta, list[i]), list, i + 1)

\* the failure of the read is caught
loadMetadata(w) ==
  LET g == redisGet(w, metadataKey)
  IN IF Throws(g) THEN [g EXCEPT !.err = "none"]
     ELSE IF Truthy(g.ret)
     THEN [g EXCEPT !.meta = MapSetAll(@, JSONparse(g.ret).a, 1)]
     ELSE g

clear(w) == redisDel([w EXCEPT !.meta = << >>], {metadataKey})

-----------------------------------------------------------------------------
(* The operations of RedisMemoryManager and the clock, one action each *)

TrackAccess(s, estimatedSize, maxCount) ==
  /\ s \in Tracked(sessionMetadata) =>
       MapGet(sessionMetadata, s).accessCount < maxCount
  /\ Commit(trackAccess(World({}, {}), s, estimatedSize))
  /\ last' = [op |-> "trackAccess", sessionId |-> s, estimatedSize |-> estimatedSize,
              err |-> "none"]
  /\ UNCHANGED <<ormConfigured, checkInterval, timers, config, now, saved, inflight>>

Start(rf, maxTimers) ==
  /\ timers < maxTimers
  /\ Commit(loadMetadata(World(rf, {})))
  /\ checkInterval' = TRUE
  /\ timers' = timers + 1
  /\ last' = [op |-> "start", err |-> "none"]
  /\ UNCHANGED <<ormConfigured, config, now, saved, inflight>>

Stop(rf) ==
  /\ Commit(saveMetadata(World(rf, {})))
  /\ checkInterval' = FALSE
  /\ timers' = IF checkInterval THEN timers - 1 ELSE timers
  /\ last' = [op |-> "stop", err |-> "none"]
  /\ UNCHANGED <<ormConfigured, config, now, saved, inflight>>

Clear(rf) ==
  LET w == clear(World(rf, {}))
  IN /\ Commit(w)
     /\ last' = [op |-> "clear", err |-> w.err]
     /\ UNCHANGED <<ormConfigured, checkInterval, timers, config, now, saved, inflight>>

\* no call of the manager is awaiting Redis
NoneInFlight == [sweeps |-> << >>, start |-> FALSE, stop |-> Null, read |-> Null]

\* a tick of a scheduled interval timer runs checkAndEvict
Sweep(rf) ==
  LET w == checkAndEvict(World(rf, {}))
  IN /\ timers > 0
     /\ Commit(w)
     /\ last' = [op |-> "sweep", err |-> w.err, trace |-> w.trace]
     /\ UNCHANGED <<ormConfigured, checkInterval, timers, config, now, saved, inflight>>

-----------------------------------------------------------------------------
(* The manager's calls step by step: a call runs up to its next await, and  *)
(* other calls run before it resumes.  No Redis call fails here.            *)

\* a sweep that awaits Redis: where it is, the sorted entries and the index of the
\* LRU loop, the now of the inactivity pass, and the session whose DEL are awaited
SweepAt(pc, sortedSessions, i, at, sessionId) ==
  [pc |-> pc, sortedSessions |-> sortedSessions, i |-> i, at |-> at, sessionId |-> sessionId]

\* evictInactive up to its next await: the Map is walked to the first entry that is
\* inactive at the now the pass began with; without one the sweep is over
InactiveFrom(meta, at) ==
  LET idle == SelectSeq(meta, LAMBDA m : at - m.lastAccess > config.ttlInactivity * 1000)
  IN IF idle = << >> THEN SweepAt("done", << >>, 0, at, "")
     ELSE SweepAt("inactiveDel", << >>, 0, at, idle[1].sessionId)

\* evictLRU up to its next await: the memory query of the loop, or the inactivity pass
LRUFrom(meta, sortedSessions, i) ==
  IF i > Len(sortedSessions) THEN InactiveFrom(meta, now)
  ELSE SweepAt("lruMemory", sortedSessions, i, 0, "")

\* the sweep c resumes on the answer of Redis and runs up to its next await
SweepNext(c) ==
  LET w == World({}, {})
      memory == getMemoryUsage(w).ret
      evicted == evictSession([w EXCEPT !.pass = IF c.pc = "lruDel" THEN "lru" ELSE "inactive"],
                              c.sessionId)
  IN CASE c.pc = "memory" ->
            [w |-> w,
             c |-> IF PercentGT(memory, config.evictionThreshold)
                   THEN LRUFrom(w.meta, SessionIds(SortByLastAccess(w.meta)), 1)
                   ELSE InactiveFrom(w.meta, now)]
       [] c.pc = "lruMemory" ->
            [w |-> w,
             c |-> IF PercentLE(memory, config.evictionThreshold - 10)
                   THEN InactiveFrom(w.meta, now)
                   ELSE SweepAt("lruDel", c.sortedSessions, c.i, 0, c.sortedSessions[c.i])]
       [] c.pc = "lruDel" ->
            [w |-> evicted, c |-> LRUFrom(evicted.meta, c.sortedSessions, c.i + 1)]
       [] c.pc = "inactiveDel" ->
            [w |-> evicted, c |-> InactiveFrom(evicted.meta, c.at)]

RemoveAt(seq, i) == SubSeq(seq, 1, i - 1) \o SubSeq(seq, i + 1, Len(seq))

\* a tick of a scheduled timer calls checkAndEvict, which awaits its first memory query
SweepBegin(maxInFlight) ==
  /\ timers > 0
  /\ Len(inflight.sweeps) < maxInFlight
  /\ inflight' = [inflight EXCEPT !.sweeps = Append(@, SweepAt("memory", << >>, 0, 0, ""))]
  /\ last' = [op |-> "sweep", err |-> "none"]
  /\ UNCHANGED <<redis, db, ormConfigured, sessionMetadata, checkInterval, timers, config,
                 now, saved>>

SweepResume(i) ==
  LET n == SweepNext(inflight.sweeps[i])
  IN /\ i \in 1..Len(inflight.sweeps)
     /\ Commit(n.w)
     /\ inflight' = [inflight EXCEPT !.sweeps = IF n.c.pc = "done" THEN RemoveAt(@, i)
                                                ELSE [@ EXCEPT ![i] = n.c]]
     /\ last' = [op |-> "sweep.resume", err |-> "none", trace |-> n.w.trace]
     /\ UNCHANGED <<ormConfigured, checkInterval, timers, config, now, saved>>

\* start() up to its await of loadMetadata
StartCall(maxTimers) ==
  /\ ~inflight.start
  /\ timers < maxTimers
  /\ inflight' = [inflight EXCEPT !.start = TRUE]
  /\ last' = [op |-> "start.call", err |-> "none"]
  /\ UNCHANGED <<redis, db, ormConfigured, sessionMetadata, checkInterval, timers, config,
                 now, saved>>

\* start() from the answer of Redis: the entries are loaded, the timer is scheduled
StartReturn ==
  /\ inflight.start
  /\ Commit(loadMetadata(World({}, {})))
  /\ checkInterval' = TRUE
  /\ timers' = timers + 1
  /\ inflight' = [inflight EXCEPT !.start = FALSE]
  /\ last' = [op |-> "start", err |-> "none"]
  /\ UNCHANGED <<ormConfigured, config, now, saved>>

\* stop() up to its await: the timer is cleared and the SET of the entries is issued
StopCall ==
  /\ inflight.stop = Null
  /\ checkInterval' = FALSE
  /\ timers' = IF checkInterval THEN timers - 1 ELSE timers
  /\ inflight' = [inflight EXCEPT !.stop = [t |-> "array", a |-> sessionMetadata]]
  /\ last' = [op |-> "stop.call", err |-> "none"]
  /\ UNCHANGED <<redis, db, ormConfigured, sessionMetadata, config, now, saved>>

\* stop() returns once Redis has answered the SET
StopReturn ==
  /\ inflight.stop # Null
  /\ redis' = saveMetadata([World({}, {}) EXCEPT !.meta = inflight.stop.a]).redis
  /\ inflight' = [inflight EXCEPT !.stop = Null]
  /\ last' = [op |-> "stop", err |-> "none"]
  /\ UNCHANGED <<db, ormConfigured, sessionMetadata, checkInterval, timers, config, now,
                 saved>>

-----------------------------------------------------------------------------
(* getCreds of another caller step by step: it runs up to the await of an    *)
(* adapter call, and other calls run before it resumes.  No call fails here. *)

\* getCreds up to its second await: Redis is read; on a miss the database read is awaited
ReadBegin(s) ==
  LET r == Redis_getCreds(World({}, {}), s)
  IN /\ inflight.read = Null
     /\ inflight' = [inflight EXCEPT !.read =
                       IF ~Truthy(r.ret) /\ ormConfigured
                       THEN [pc |-> "database", sessionId |-> s, credential |-> Null]
                       ELSE Null]
     /\ last' = [op |-> "read", sessionId |-> s, err |-> "none"]
     /\ UNCHANGED <<redis, db, ormConfigured, sessionMetadata, checkInterval, timers, config,
                    now, saved>>

\* the database has answered: a record found is about to be cached in Redis
ReadDatabase ==
  /\ inflight.read # Null
  /\ inflight.read.pc = "database"
  /\ LET d == Orm_getCreds(World({}, {}), inflight.read.sessionId)
     IN inflight' = [inflight EXCEPT !.read =
                       IF Truthy(d.ret) THEN [@ EXCEPT !.pc = "cache", !.credential = d.ret]
                       ELSE Null]
  /\ last' = [op |-> "read.database", sessionId |-> inflight.read.sessionId, err |-> "none"]
  /\ UNCHANGED <<redis, db, ormConfigured, sessionMetadata, checkInterval, timers, config,
                 now, saved>>

\* the record read from the database is saved to Redis and getCreds returns it
ReadCache ==
  /\ inflight.read # Null
  /\ inflight.read.pc = "cache"
  /\ Commit(Redis_saveCreds(World({}, {}), inflight.read.sessionId, inflight.read.credential,
                            NoOptions))
  /\ inflight' = [inflight EXCEPT !.read = Null]
  /\ last' = [op |-> "read.cache", sessionId |-> inflight.read.sessionId, err |-> "none"]
  /\ UNCHANGED <<ormConfigured, checkInterval, timers, config, now, saved>>

\* a new RedisMemoryManager over the same Redis, the process of the old one being gone
Construct ==
  /\ sessionMetadata' = << >>
  /\ checkInterval' = FALSE
  /\ timers' = 0
  /\ inflight' = NoneInFlight
  /\ last' = [op |-> "new", err |-> "none"]
  /\ UNCHANGED <<redis, db, ormConfigured, config, now, saved>>

Tick ==
  /\ now < MaxTicks * TickMs
  /\ now' = now + TickMs
  /\ last' = [op |-> "tick", err |-> "none"]
  /\ UNCHANGED <<redis, db, ormConfigured, sessionMetadata, checkInterval, timers, config,
                 saved, inflight>>

-----------------------------------------------------------------------------
(* Specifications *)

Init ==
  /\ redis = [k \in {} |-> Null]
  /\ db = [s \in AllSessions |-> NoRow]
  /\ ormConfigured \in BOOLEAN
  /\ sessionMetadata = << >>
  /\ checkInterval = FALSE
  /\ timers = 0
  /\ config \in Configs
  /\ now = 0
  /\ inflight = NoneInFlight
  /\ saved = [s \in AllSessions |-> Null]
  /\ last = [op |-> "init", err |-> "none"]

Next ==
  \/ \E s \in StoreSessions : \E f \in FailCasesOf(s) :
       \/ \E i \in SaveInputs(s) : SaveCreds(s, i[1], i[2], f[1], f[2])
       \/ GetCreds(s, f[1], f[2])
       \/ DeleteCreds(s, f[1], f[2])
  \/ \E f \in FailCases :
       \/ ClearSession("s1", f[1], f[2])
       \/ \E ids \in {{"1"}, KeyIds} : GetKeys("s1", KeyType, ids, f[1], f[2])
  \/ \E key \in DOMAIN redis : Expire(key)

Spec == Init /\ [][Next]_vars

\* what setKeys is given, flattened: both ids set, one id unset, one set and one unset
KeyEntry(id, value) == [category |-> KeyType, id |-> id, value |-> value]
SetKeysInputs ==
  {<<KeyEntry("1", v1), KeyEntry("2", v2)>>,
   <<KeyEntry("1", Null)>>,
   <<KeyEntry("1", v2), KeyEntry("2", Undefined)>>}

\* The key store of one session: setKeys, getKeys, the helper's keys.set and saveCreds,
\* a Redis-only saveCreds of a key with a ttl, and the expiry of Redis entries
NextKeys ==
  \/ \E f \in FailCases :
       \/ \E data \in SetKeysInputs : SetKeys("s1", data, f[1], f[2])
       \/ \E ids \in {{"1"}, KeyIds} : GetKeys("s1", KeyType, ids, f[1], f[2])
  \/ SaveCreds("s1", Credential(Undefined, MapObj([f \in {FieldName(KeyType, "1")} |-> c1]),
                                Undefined),
               Options(Ttl, "false"), {}, {})
  \/ \E ttl \in {0, Ttl} :
       \/ StateSaveCreds("s1", c1, Options(ttl, "undefined"), {}, {})
       \/ StateKeysSet("s1", <<KeyEntry("1", v1), KeyEntry("2", Null)>>,
                       Options(ttl, "undefined"), {}, {})
  \/ \E key \in DOMAIN redis : Expire(key)

SpecKeys == Init /\ [][NextKeys]_vars

\* the key maps a saveCreds is given: one field each
KeyMaps ==
  {MapObj([f \in {FieldName(KeyType, "1")} |-> v1]),
   MapObj([f \in {FieldName(KeyType, "2")} |-> v2])}

\* Both adapters, no failure, every write synced: saveCreds with creds or with a key
\* map, and setKeys, one call after the other
InitAgree == Init /\ ormConfigured = TRUE

NextAgree ==
  \/ \E o \in {NoOptions, Options(0, "true")} :
       \/ \E c \in {c1, c2} : SaveCreds("s1", Credential(c, Undefined, Undefined), o, {}, {})
       \/ \E m \in KeyMaps : SaveCreds("s1", Credential(Undefined, m, Undefined), o, {}, {})
  \/ \E data \in SetKeysInputs : SetKeys("s1", data, {}, {})
  \/ SaveCreds("s2", Credential(c2, MapObj([f \in {FieldName(KeyType, "1")} |-> v2]), Undefined),
               NoOptions, {}, {})
  \/ SetKeys("s2", <<KeyEntry("1", Null)>>, {}, {})

SpecAgree == InitAgree /\ [][NextAgree]_vars

\* which Redis calls of a manager operation fail: none, one, or all (Redis is down)
ManagerFailures == {{}} \cup {{i} : i \in 1..MaxFailAt} \cup {1..(8 * Cardinality(AllSessions))}

\* how often a session is accessed while it is tracked
AccessBound(s) == IF s = "s1" THEN MaxAccessCount ELSE 1

\* The manager at work on three sessions of a store without a database
InitMgr == Init /\ ormConfigured = FALSE

NextMgr ==
  \/ \E s \in AllSessions : SaveCreds(s, Credential(c1, Undefined, Undefined), NoOptions, {}, {})
  \/ \E s \in AllSessions : TrackAccess(s, 0, AccessBound(s))
  \/ Start({}, 1)
  \/ \E rf \in ManagerFailures : Sweep(rf)
  \/ Tick

SpecMgr == InitMgr /\ [][NextMgr]_vars

\* The seven operations of the store on two sessions, beside the tracker of a manager
NextSessions ==
  \/ \E s \in StoreSessions :
       \E f \in IF s = "s1" THEN {NoFailure, <<{1}, {}>>, <<{}, {1}>>} ELSE {NoFailure} :
         \/ SaveCreds(s, Credential(IF s = "s1" THEN c1 ELSE c2, Undefined, Undefined),
                      NoOptions, f[1], f[2])
         \/ GetCreds(s, f[1], f[2])
         \/ DeleteCreds(s, f[1], f[2])
         \/ SetKeys(s, <<KeyEntry("1", IF s = "s1" THEN v1 ELSE v2), KeyEntry("2", Null)>>,
                    f[1], f[2])
         \/ GetKeys(s, KeyType, {"1"}, f[1], f[2])
         \/ DeleteKeys(s, {FieldName(KeyType, "1")}, f[1], f[2])
         \/ ClearSession(s, f[1], f[2])
  \/ TrackAccess("s1", 0, 1)

SpecSessions == Init /\ [][NextSessions]_vars

\* One caller saves, reads and deletes the creds of a session while another caller's
\* getCreds is under way and the manager sweeps
NextReaders ==
  \/ \E c \in {c1, c2} :
       SaveCreds("s1", Credential(c, Undefined, Undefined), Options(Ttl, "undefined"), {}, {})
  \/ GetCreds("s1", {}, {})
  \/ DeleteCreds("s1", {}, {})
  \/ ReadBegin("s1")
  \/ ReadDatabase
  \/ ReadCache
  \/ \E key \in DOMAIN redis : Expire(key)
  \/ TrackAccess("s1", 0, 1)
  \/ Start({}, 1)
  \/ Sweep({})
  \/ Tick

SpecReaders == Init /\ [][NextReaders]_vars

\* The manager constructed with any configuration, valid or not
InitConfig ==
  /\ redis = [k \in {} |-> Null]
  /\ db = [s \in AllSessions |-> NoRow]
  /\ ormConfigured = FALSE
  /\ sessionMetadata = << >>
  /\ checkInterval = FALSE
  /\ timers = 0
  /\ config \in Configs \cup InvalidConfigs
  /\ now = 0
  /\ inflight = NoneInFlight
  /\ saved = [s \in AllSessions |-> Null]
  /\ last = [op |-> "init", err |-> "none"]

NextConfig ==
  \/ \E s \in AllSessions : SaveCreds(s, Credential(c1, Undefined, Undefined), NoOptions, {}, {})
  \/ \E s \in StoreSessions : TrackAccess(s, 0, 1)
  \/ Start({}, 1)
  \/ Sweep({})
  \/ Tick

SpecConfig == InitConfig /\ [][NextConfig]_vars

\* The tracker under trackAccess with and without an estimated size, beside the
\* creds of a session in Redis
NextTrack ==
  \/ \E s \in StoreSessions : \E size \in {0, FieldBytes, StringBytes} :
       TrackAccess(s, size, MaxAccessCount)
  \/ SaveCreds("s1", Credential(c1, Undefined, Undefined), NoOptions, {}, {})
  \/ Tick

SpecTrack == Init /\ [][NextTrack]_vars

\* The tracker persisted by stop() and restored by start() on a new manager, beside
\* the store's data and its bulk clearAll
NextSnapshot ==
  \/ SaveCreds("s1", Credential(c1, MapObj([f \in {FieldName(KeyType, "1")} |-> v1]), Undefined),
               NoOptions, {}, {})
  \/ TrackAccess("s1", 0, MaxAccessCount)
  \/ TrackAccess("s2", StringBytes, 1)
  \/ Start({}, 1)
  \/ Stop({})
  \/ Construct
  \/ \E df \in {{}, {1}} : ClearAll({}, df)
  \/ Tick

SpecSnapshot == Init /\ [][NextSnapshot]_vars

\* The calls of the manager interleaved at their awaits, on two tracked sessions.
\* Redis is either empty or holds the credentials of three sessions, which is
\* above the eviction threshold.
InitRace ==
  /\ redis \in {[k \in {} |-> Null],
                [k \in {getRedisKeyWhatsapp(s).CREDENTIALS : s \in AllSessions} |->
                   StringEntry(JSONstringify(c1), 0)]}
  /\ db = [s \in AllSessions |-> NoRow]
  /\ ormConfigured = FALSE
  /\ sessionMetadata = << >>
  /\ checkInterval = FALSE
  /\ timers = 0
  /\ config \in Configs
  /\ now = 0
  /\ inflight = NoneInFlight
  /\ saved = [s \in AllSessions |-> Null]
  /\ last = [op |-> "init", err |-> "none"]

NextRace ==
  \/ \E s \in StoreSessions : TrackAccess(s, 0, 1)
  \/ StartCall(1)
  \/ StartReturn
  \/ SweepBegin(MaxInFlight)
  \/ \E i \in 1..Len(inflight.sweeps) : SweepResume(i)
  \/ StopCall
  \/ StopReturn
  \/ Tick

SpecRace == InitRace /\ [][NextRace]_vars

\* The timer of a started manager fires while earlier sweeps still await Redis, and
\* sessions are accessed meanwhile.  Redis is above the eviction threshold.
InitOverlap == InitRace /\ DOMAIN redis # {}

NextOverlap ==
  \/ \E s \in StoreSessions : TrackAccess(s, 0, AccessBound(s))
  \/ Start({}, 1)
  \/ SweepBegin(MaxOverlap)
  \/ \E i \in 1..Len(inflight.sweeps) : SweepResume(i)
  \/ Tick

SpecOverlap == InitOverlap /\ [][NextOverlap]_vars

\* (type, id) pairs of Baileys' key store: a sender key, a sender-key-memory entry and
\* a pre-key
KeyPairs == {<<"sender-key", "memory-1">>, <<"sender-key-memory", "1">>, <<"pre-key", "1">>}

\* The keys of one session under setKeys and getKeys of one (type, id) pair at a time
NextNames ==
  \E p \in KeyPairs :
    \/ \E v \in {v1, v2, Null} :
         SetKeys("s1", <<[category |-> p[1], id |-> p[2], value |-> v]>>, {}, {})
    \/ GetKeys("s1", p[1], {p[2]}, {}, {})

SpecNames == Init /\ [][NextNames]_vars

\* The life of the manager, start to stop, on two sessions of a store with a database
InitLife == Init /\ ormConfigured = TRUE

NextLife ==
  \/ \E s \in StoreSessions : SaveCreds(s, Credential(c1, Undefined, Undefined), NoOptions, {}, {})
  \/ \E s \in StoreSessions : TrackAccess(s, 0, 1)
  \/ \E rf \in {{}, {1}} : Start(rf, MaxTimers)
  \/ \E rf \in {{}, {1}} : Stop(rf)
  \/ \E rf \in {{}, {1}} : Clear(rf)
  \/ \E rf \in ManagerFailures : Sweep(rf)
  \/ Tick

SpecLife == InitLife /\ [][NextLife]_vars

-----------------------------------------------------------------------------
(* What it means for a returned record, or for Redis, to hold a record's data *)

FieldsOf(r) == IF r.keys.t = "map" THEN DOMAIN r.keys.m ELSE {}

\* ret carries the creds of r, when r has creds, and every key field of r
HasData(ret, r) ==
  /\ Truthy(r.creds) => ret.t = "credential" /\ ret.creds = r.creds
  /\ \A f \in FieldsOf(r) :
       /\ ret.t = "credential"
       /\ ret.keys.t = "map"
       /\ f \in DOMAIN ret.keys.m
       /\ ret.keys.m[f] = r.keys.m[f]

\* a Redis-only read of session s finds the data of r
RedisHolds(rds, s, r) ==
  LET k == getRedisKeyWhatsapp(s)
  IN /\ Truthy(r.creds) =>
          /\ k.CREDENTIALS \in DOMAIN rds
          /\ JSONparse(rds[k.CREDENTIALS].v) = r.creds
     /\ \A f \in FieldsOf(r) :
          /\ k.KEYS \in DOMAIN rds
          /\ f \in DOMAIN rds[k.KEYS].h
          /\ JSONparse(rds[k.KEYS].h[f]) = r.keys.m[f]

HasSomeData(r) == Truthy(r.creds) \/ FieldsOf(r) # {}

NoData(rds, d, s) == ~HasRedisData(rds, s) /\ d[s] = NoRow

-----------------------------------------------------------------------------
(* Claims *)

\* C1: after a synced saveCreds(k, r) with both adapters, once k's Redis entries are
\* gone, a getCreds(k) that returns gives r's data, read from the database, and
\* leaves r's data in Redis again.
C1_DurableFallback ==
  [][\A s \in StoreSessions :
       ( /\ last'.op = "getCreds" /\ last'.sessionId = s /\ last'.err = "none"
         /\ Truthy(saved[s])
         /\ ~HasRedisData(redis, s) )
       => /\ last'.dn > 0
          /\ HasData(last'.ret, saved[s])
          /\ RedisHolds(redis', s, saved[s])]_vars

\* C1 witness: a getCreds that missed Redis has returned the creds saved before
C1_Witness ==
  /\ last.op = "getCreds" /\ last.err = "none" /\ last.dn > 0
  /\ Truthy(saved[last.sessionId])
  /\ HasSomeData(saved[last.sessionId])
  /\ HasData(last.ret, saved[last.sessionId])
  /\ RedisHolds(redis, last.sessionId, saved[last.sessionId])

\* C4 as stated: a getCreds(k) right after a successful saveCreds(k, r) returns a
\* record equal to r, whatever the stores held before.
C4_RoundTripEqual ==
  [][( /\ last.op = "saveCreds" /\ last.err = "none"
       /\ last'.op = "getCreds" /\ last'.err = "none"
       /\ last'.sessionId = last.sessionId )
     => last'.ret = last.arg]_vars

\* C4 amended: a getCreds(k) right after a successful saveCreds(k, r) returns a
\* record that contains r: r's creds when r has creds, and every key field of r.
C4_RoundTripContains ==
  [][( /\ last.op = "saveCreds" /\ last.err = "none"
       /\ last'.op = "getCreds" /\ last'.err = "none"
       /\ last'.sessionId = last.sessionId )
     => HasData(last'.ret, last.arg)]_vars

\* C4 witness: a getCreds right after a saveCreds returned more than was saved
C4_Witness ==
  /\ last.op = "getCreds" /\ last.err = "none"
  /\ last.follows.op = "saveCreds"
  /\ last.ret.t = "credential"
  /\ Truthy(last.ret.creds) /\ FieldsOf(last.ret) # {}

\* C5: once deleteCreds(k) or clearSession(k) has completed, neither store holds
\* data of k, and a getCreds(k) that follows returns null.
C5_DeleteThenAbsent ==
  [][/\ ( last'.op \in {"deleteCreds", "clearSession"} /\ last'.err = "none" )
        => NoData(redis', db', last'.sessionId)
     /\ ( /\ last.op \in {"deleteCreds", "clearSession"} /\ last.err = "none"
          /\ last'.op = "getCreds" /\ last'.err = "none"
          /\ last'.sessionId = last.sessionId )
        => last'.ret = Null]_vars

\* C5 witness: getCreds returned null right after the delete of a session that had data
C5_Witness ==
  /\ last.op = "getCreds" /\ last.err = "none"
  /\ last.follows.op \in {"deleteCreds", "clearSession"}
  /\ last.follows.had
  /\ last.ret = Null
  /\ NoData(redis, db, last.sessionId)

\* C9: when a Redis read of getCreds or getKeys fails, the call fails, the database
\* is not consulted, and neither store changes.
RedisReadsOf(op) == IF op = "getCreds" THEN {1, 2} ELSE {1}

C9_RedisReadFailureSurfaces ==
  [][( /\ last'.op \in {"getCreds", "getKeys"}
       /\ last'.rhit \cap RedisReadsOf(last'.op) # {} )
     => /\ last'.err = "redis"
        /\ last'.dn = 0
        /\ redis' = redis
        /\ db' = db]_vars

\* C9 witness: getCreds failed on its Redis read while the database held the session
C9_Witness ==
  /\ last.op = "getCreds" /\ last.err = "redis"
  /\ last.rhit \cap {1, 2} # {}
  /\ last.dn = 0
  /\ ormConfigured
  /\ db[last.sessionId] # NoRow

-----------------------------------------------------------------------------
(* What a sweep did, read from the step that made it *)

Evictions(trace) == SelectSeq(trace, LAMBDA e : e.pass \in {"lru", "inactive"})
Evicted(trace, pass) == SelectSeq(trace, LAMBDA e : e.pass = pass /\ ~e.failed)
NoCallFailed(trace) == \A i \in 1..Len(trace) : ~trace[i].failed

\* the Redis entries under which BaileysRedisAdapter stores a session
AdapterKeys(s) == {getRedisKeyWhatsapp(s).CREDENTIALS, getRedisKeyWhatsapp(s).KEYS}

Inactive(m) == now - m.lastAccess > config.ttlInactivity * 1000

\* C2: when a sweep evicts session k, by either pass, the Redis entries under which
\* BaileysRedisAdapter stores k's creds and keys are absent afterwards and k is no
\* longer tracked.
C2_EvictedAbsent ==
  [][last'.op = "sweep" =>
       \A i \in 1..Len(Evictions(last'.trace)) :
         LET e == Evictions(last'.trace)[i]
         IN ~e.failed =>
              /\ AdapterKeys(e.sessionId) \cap DOMAIN redis' = {}
              /\ e.sessionId \notin Tracked(sessionMetadata')]_vars

\* C3: no operation of the manager (start, stop, sweep, clear) writes or deletes in
\* the database: every row is after the operation what it was before.
C3_DatabaseUntouched ==
  [][last'.op \in {"start", "stop", "sweep", "clear"} => db' = db]_vars

\* a sweep has evicted a session that has a database row
C3_Witness ==
  /\ last.op = "sweep"
  /\ \E i \in 1..Len(last.trace) :
       /\ last.trace[i].pass \in {"lru", "inactive"}
       /\ ~last.trace[i].failed
       /\ db[last.trace[i].sessionId] # NoRow

\* the least number of oldest sessions whose removal from Redis brings usage to the target
Candidates == SessionIds(SortByLastAccess(sessionMetadata))
UsageWithout(n) ==
  [usedBytes |-> UsedMemory(Without(redis, UNION {AdapterKeys(Candidates[i]) : i \in 1..n})),
   maxBytes |-> config.maxMemoryBytes]
Needed ==
  LET enough == {n \in 0..Len(Candidates) :
                   PercentLE(UsageWithout(n), config.evictionThreshold - 10)}
  IN IF enough = {} THEN Len(Candidates)
     ELSE CHOOSE n \in enough : \A m \in enough : n <= m

\* C6: with tracked sessions of strictly increasing lastAccess and usage above the
\* threshold, the LRU pass of a sweep evicts the oldest sessions in order and stops
\* as soon as usage is at most (threshold - 10) percent: it evicts exactly the
\* shortest oldest-first prefix that brings usage there, or all when none does.
C6_MinimalPrefix ==
  [][/\ last'.op = "sweep"
     /\ NoCallFailed(last'.trace)
     /\ \A i, j \in 1..Len(sessionMetadata) :
          i < j => sessionMetadata[i].lastAccess < sessionMetadata[j].lastAccess
     /\ PercentGT([usedBytes |-> UsedMemory(redis), maxBytes |-> config.maxMemoryBytes],
                  config.evictionThreshold)
     => SessionIds(Evicted(last'.trace, "lru")) = SubSeq(Candidates, 1, Needed)]_vars

\* C7: in every sweep each tracked session idle for more than ttlInactivity*1000 ms is
\* evicted (gone from the tracker and from Redis), whatever the memory usage, and a
\* session idle for at most that long is not evicted by the inactivity pass.
C7_InactiveEvicted ==
  [][last'.op = "sweep" /\ NoCallFailed(last'.trace) =>
       \A i \in 1..Len(sessionMetadata) :
         LET m == sessionMetadata[i]
         IN /\ Inactive(m) =>
                 /\ m.sessionId \notin Tracked(sessionMetadata')
                 /\ AdapterKeys(m.sessionId) \cap DOMAIN redis' = {}
            /\ ~Inactive(m) =>
                 \A j \in 1..Len(last'.trace) :
                   last'.trace[j].pass = "inactive" =>
                     last'.trace[j].sessionId # m.sessionId]_vars

\* C8 as stated: a sweep whose memory query fails evicts nothing, by neither pass;
\* the tracker and Redis are after it what they were before.
C8_FailedQueryNoEviction ==
  [][last'.op = "sweep" /\ (\E i \in 1..Len(last'.trace) :
                               last'.trace[i].pass = "memory" /\ last'.trace[i].failed)
     => /\ sessionMetadata' = sessionMetadata
        /\ redis' = redis
        /\ Evictions(last'.trace) = << >>]_vars

\* C8 as the code has it: a failed memory query is read as 0 percent. The LRU pass
\* evicts nothing after a failed query (it does not run when the first query fails);
\* the inactivity pass still runs: after a sweep whose first query failed, a tracked
\* session is gone from the tracker exactly if it was idle for more than
\* ttlInactivity*1000 ms and its two DEL succeeded.
C8_FailedQueryReadsZero ==
  [][last'.op = "sweep" /\ config.evictionThreshold >= 10 =>
       LET trace == last'.trace
       IN /\ \A i, j \in 1..Len(trace) :
               i < j /\ trace[i].pass = "memory" /\ trace[i].failed => trace[j].pass # "lru"
          /\ trace[1].failed =>
               \A k \in 1..Len(sessionMetadata) :
                 LET m == sessionMetadata[k]
                     tried == {j \in 1..Len(trace) :
                                 /\ trace[j].pass = "inactive"
                                 /\ trace[j].sessionId = m.sessionId}
                 IN /\ Inactive(m) <=> tried # {}
                    /\ m.sessionId \notin Tracked(sessionMetadata') <=>
                         \E j \in tried : ~trace[j].failed]_vars

\* the first memory query of a sweep failed with Redis well filled, and the
\* inactivity pass took a session off the tracker
C8_Witness ==
  /\ last.op = "sweep"
  /\ last.trace[1].failed
  /\ PercentGT([usedBytes |-> UsedMemory(redis), maxBytes |-> config.maxMemoryBytes],
               config.evictionThreshold)
  /\ Evicted(last.trace, "inactive") # << >>
  /\ sessionMetadata # << >>

-----------------------------------------------------------------------------
(* Claims on the order of the two writes and on failures between them *)

C12_RedisBeforeDatabase ==
  [][last'.op = "saveCreds" =>
       /\ last'.dn > 0 =>
            /\ last'.rhit = {}
            /\ RedisHolds(redis', last'.sessionId, last'.arg)
       /\ last'.rhit # {} =>
            /\ last'.err = "redis" /\ last'.dn = 0
            /\ db' = db]_vars

\* a synced saveCreds has failed on Redis and the database does not have its creds
C12_Witness ==
  /\ last.op = "saveCreds" /\ last.err = "redis" /\ last.dn = 0
  /\ ormConfigured /\ last.options.syncToDatabase # "false"
  /\ Truthy(last.arg.creds)
  /\ \/ db[last.sessionId] = NoRow
     \/ db[last.sessionId].creds # last.arg.creds

-----------------------------------------------------------------------------
(* Claims on the key store *)

Named(data, type, id) ==
  \E i \in 1..Len(data) : data[i].category = type /\ data[i].id = id

\* C13: a getKeys(k, t, ids) right after a successful setKeys(k, data) returns, for
\* each requested id that data sets, the value set; it omits each requested id that
\* data unsets (null or absent value), whatever Redis and the database held; and an
\* id that data does not name, held in Redis before, is still returned.
C13_SetKeysThenGetKeys ==
  [][( /\ last'.op = "getKeys" /\ last'.err = "none"
       /\ last'.after.op = "setKeys" )
     => LET data == last'.after.data
            ret == last'.ret.m
        IN /\ DOMAIN ret \subseteq last'.ids
           /\ \A i \in 1..Len(data) :
                ( data[i].category = last'.type /\ data[i].id \in last'.ids ) =>
                  IF Truthy(data[i].value)
                  THEN data[i].id \in DOMAIN ret /\ ret[data[i].id] = data[i].value
                  ELSE data[i].id \notin DOMAIN ret
           /\ \A id \in last'.ids :
                ( /\ ~Named(data, last'.type, id)
                  /\ FieldName(last'.type, id) \in DOMAIN last'.after.had ) =>
                  /\ id \in DOMAIN ret
                  /\ ret[id] = last'.after.had[FieldName(last'.type, id)]]_vars

\* with a database, a setKeys has unset id 1, which Redis held, and the getKeys that
\* follows returns id 2 and not id 1
C13_Witness ==
  /\ last.op = "getKeys" /\ last.err = "none" /\ last.ids = KeyIds
  /\ last.after.op = "setKeys"
  /\ ormConfigured
  /\ \E i \in 1..Len(last.after.data) :
       last.after.data[i].id = "1" /\ ~Truthy(last.after.data[i].value)
  /\ FieldName(KeyType, "1") \in DOMAIN last.after.had
  /\ DOMAIN last.ret.m = {"2"}

\* C14: a getKeys(k, t, ids) that returns gives, for each requested id, the Redis
\* value when k's Redis hash has the field, else the database value when the row has
\* it, and omits the id otherwise; the ids resolved from the database, and no other
\* field, are written into k's Redis hash, so that every returned id is then in Redis;
\* the database is unchanged.
C14_GetKeysPrefersRedis ==
  [][( last'.op = "getKeys" /\ last'.err = "none" )
     => LET s == last'.sessionId
            hash == HashOf(redis, s)
            row == IF ormConfigured THEN RowKeysOf(db, s) ELSE EmptyMap
            ret == last'.ret.m
            F(id) == FieldName(last'.type, id)
            fromDb == {id \in last'.ids : F(id) \notin DOMAIN hash /\ F(id) \in DOMAIN row}
        IN /\ \A id \in last'.ids :
                IF F(id) \in DOMAIN hash THEN id \in DOMAIN ret /\ ret[id] = hash[F(id)]
                ELSE IF F(id) \in DOMAIN row THEN id \in DOMAIN ret /\ ret[id] = row[F(id)]
                ELSE id \notin DOMAIN ret
           /\ DOMAIN ret \subseteq last'.ids
           /\ HashOf(redis', s) = Merge(hash, [f \in {F(id) : id \in fromDb} |-> row[f]])
           /\ \A key \in DOMAIN redis \cup DOMAIN redis' :
                key # getRedisKeyWhatsapp(s).KEYS =>
                  key \in DOMAIN redis /\ key \in DOMAIN redis' /\ redis'[key] = redis[key]
           /\ db' = db]_vars

\* a getKeys for two ids has taken one from Redis and the other from the database,
\* where the row's value of the first differs from the one Redis has, and Redis now
\* holds both
C14_Witness ==
  /\ last.op = "getKeys" /\ last.err = "none" /\ last.ids = KeyIds /\ last.dn > 0
  /\ ormConfigured
  /\ DOMAIN last.ret.m = KeyIds
  /\ \E id \in KeyIds :
       /\ FieldName(KeyType, id) \in DOMAIN RowKeysOf(db, "s1")
       /\ RowKeysOf(db, "s1")[FieldName(KeyType, id)] # last.ret.m[id]
  /\ \A id \in KeyIds :
       /\ FieldName(KeyType, id) \in DOMAIN HashOf(redis, "s1")
       /\ HashOf(redis, "s1")[FieldName(KeyType, id)] = last.ret.m[id]

\* the row holds what the record r gave: its creds and its keys, where r has them
RowHolds(row, r) ==
  /\ row # NoRow
  /\ r.creds.t # "undefined" => row.creds = getParseData(r.creds)
  /\ r.keys.t # "undefined" => row.keys = getParseData(r.keys)

\* C18: saveCreds with syncToDatabase false leaves the whole database as it was, the
\* row of its session included; a saveCreds that returns with syncToDatabase
\* unspecified or true, an ORM adapter being configured, has written the row of its
\* session with the record it was given.
C18_SyncToDatabase ==
  [][last'.op = "saveCreds" =>
       /\ last'.options.syncToDatabase = "false" => db' = db /\ last'.dn = 0
       /\ (last'.options.syncToDatabase # "false" /\ ormConfigured /\ last'.err = "none") =>
            /\ last'.dn > 0
            /\ RowHolds(db'[last'.sessionId], last'.arg)]_vars

\* a saveCreds without sync has returned where the row holds other creds than it gave
C18_Witness ==
  /\ last.op = "saveCreds" /\ last.err = "none" /\ ormConfigured
  /\ last.options.syncToDatabase = "false"
  /\ db[last.sessionId] # NoRow
  /\ db[last.sessionId].creds # getParseData(last.arg.creds)
  /\ RedisHolds(redis, last.sessionId, last.arg)

\* C19: clearAll leaves every Redis entry and the tracker as they were; with an ORM
\* adapter a clearAll that returns has left no row of any session, and without one
\* it calls nothing and changes nothing.
C19_ClearAllDatabaseOnly ==
  [][last'.op = "clearAll" =>
       /\ redis' = redis /\ sessionMetadata' = sessionMetadata
       /\ (ormConfigured /\ last'.err = "none") => \A s \in AllSessions : db'[s] = NoRow
       /\ ~ormConfigured => db' = db /\ last'.dn = 0 /\ last'.err = "none"]_vars

\* clearAll has emptied the database while Redis holds the creds and keys of a session
\* and the manager's entries
C19_Witness ==
  /\ last.op = "clearAll" /\ last.err = "none" /\ ormConfigured
  /\ \A s \in AllSessions : db[s] = NoRow
  /\ AdapterKeys("s1") \cup {metadataKey} \subseteq DOMAIN redis

\* a slot of a record holds nothing: it is absent, null, {} or a map without fields
EmptySlot(v) == ~Truthy(v) \/ v = EmptyObj \/ (v.t = "map" /\ DOMAIN v.m = {})

\* C24: the database holds no row whose creds and keys are both empty or absent.
C24_NoEmptyRow ==
  \A s \in AllSessions :
    db[s] # NoRow => ~(EmptySlot(db[s].creds) /\ EmptySlot(db[s].keys))

\* C26: after a setKeys(k, data), failed or not, the Redis hash of k holds either the
\* fields it held before the call or those fields with every change of data made.
C26_SetKeysAllOrNothing ==
  [][last'.op = "setKeys" =>
       HashOf(redis', last'.sessionId)
         \in {last'.had, setKeysCurrent(last'.had, last'.data, 1)}]_vars

\* the operations of BaileysAuthStore on one session
StoreOps ==
  {"saveCreds", "getCreds", "deleteCreds", "getKeys", "setKeys", "deleteKeys", "clearSession"}

\* what getCreds(s) returns from the Redis contents rds and the rows d
GetCredsIn(rds, d, s) ==
  Store_getCreds([World({}, {}) EXCEPT !.redis = rds, !.db = d], s).ret

\* C21: an operation of the store on session k, failed or not, leaves for every other
\* session its two Redis entries and its row as they were, and getCreds of that
\* session returns after the operation what it returned before.
C21_SessionIsolation ==
  [][last'.op \in StoreOps =>
       \A s \in AllSessions \ {last'.sessionId} :
         /\ \A key \in AdapterKeys(s) :
              /\ key \in DOMAIN redis' <=> key \in DOMAIN redis
              /\ key \in DOMAIN redis => redis'[key] = redis[key]
         /\ db'[s] = db[s]
         /\ GetCredsIn(redis', db', s) = GetCredsIn(redis, db, s)]_vars

\* the data of s1 has been cleared while s2 holds creds and keys in Redis and a row
C21_Witness ==
  /\ last.op = "clearSession" /\ last.sessionId = "s1" /\ last.err = "none" /\ last.had
  /\ AdapterKeys("s2") \subseteq DOMAIN redis
  /\ db["s2"] # NoRow
  /\ Truthy(GetCredsIn(redis, db, "s2"))
  /\ ~Truthy(GetCredsIn(redis, db, "s1"))

\* C25: once deleteCreds(k) or clearSession(k) has returned, the tracker of the
\* manager holds no entry of k.
C25_DeletedUntracked ==
  [][(last'.op \in {"deleteCreds", "clearSession"} /\ last'.err = "none") =>
       last'.sessionId \notin Tracked(sessionMetadata')]_vars

\* C22: a getCreds(k) that returns after a saveCreds(k, r) that returned gives r's
\* data, whatever getCreds of other callers and sweeps ran in between.
C22_ReadYourWrite ==
  [][( /\ last'.op = "getCreds" /\ last'.err = "none"
       /\ Truthy(saved[last'.sessionId]) )
     => HasData(last'.ret, saved[last'.sessionId])]_vars

\* C31: a getCreds(k) that returns while the database row of k holds creds returns a
\* record with creds, also when Redis holds the keys hash of k and no creds entry.
C31_GetCredsFindsRowCreds ==
  [][( /\ last'.op = "getCreds" /\ last'.err = "none"
       /\ ormConfigured
       /\ db[last'.sessionId] # NoRow
       /\ Truthy(db[last'.sessionId].creds) )
     => (last'.ret.t = "credential" /\ Truthy(last'.ret.creds))]_vars

\* a getCreds has returned a record without creds from the keys hash alone, the row
\* of the session holding creds
C31_HashOnlyRead ==
  /\ last.op = "getCreds" /\ last.err = "none"
  /\ ormConfigured
  /\ db[last.sessionId] # NoRow /\ Truthy(db[last.sessionId].creds)
  /\ getRedisKeyWhatsapp(last.sessionId).CREDENTIALS \notin DOMAIN redis
  /\ getRedisKeyWhatsapp(last.sessionId).KEYS \in DOMAIN redis
  /\ last.ret.t = "credential" /\ ~Truthy(last.ret.creds)

\* C32: after failure-free saveCreds and setKeys calls made one after the other,
\* both adapters configured and every write synced, the fields of the Redis keys hash
\* of each session, parsed, are the fields of the keys of its row.
C32_StoresAgreeOnKeys ==
  \A s \in StoreSessions : HashOf(redis, s) = RowKeysOf(db, s)

\* a saveCreds with a key map has replaced the keys of the row and merged the map
\* into the Redis hash, which held another field
C32_MergedAndReplaced ==
  /\ last.op = "saveCreds" /\ last.err = "none"
  /\ Truthy(last.arg.keys)
  /\ DOMAIN RowKeysOf(db, last.sessionId) = DOMAIN last.arg.keys.m
  /\ DOMAIN HashOf(redis, last.sessionId) # DOMAIN last.arg.keys.m

\* C33: when a getCreds(k) under way during a deleteCreds(k) completes, the delete
\* having removed the row the read found, neither store holds data of k and a later
\* getCreds(k) returns null.
C33_NoResurrection ==
  [][(last'.op = "read.cache" /\ db'[last'.sessionId] = NoRow)
     => ( /\ NoData(redis', db', last'.sessionId)
          /\ GetCredsIn(redis', db', last'.sessionId) = Null )]_vars

\* a getCreds that read the row before a deleteCreds removed it has completed, and
\* Redis holds the creds of the deleted session again
C33_Resurrected ==
  /\ last.op = "read.cache"
  /\ inflight.read = Null
  /\ db[last.sessionId] = NoRow
  /\ getRedisKeyWhatsapp(last.sessionId).CREDENTIALS \in DOMAIN redis
  /\ Truthy(GetCredsIn(redis, db, last.sessionId))

\* C34: when a getCreds(k) that missed Redis completes its warm-up, Redis holds the
\* creds of the last saveCreds(k, r) that returned, also when that saveCreds ran
\* while the getCreds was under way.
C34_WarmUpNotStale ==
  [][(last'.op = "read.cache" /\ Truthy(saved[last'.sessionId]))
     => RedisHolds(redis', last'.sessionId, saved[last'.sessionId])]_vars

\* the warm-up of a getCreds has put into Redis creds other than those last saved
C34_StaleInstalled ==
  /\ last.op = "read.cache"
  /\ inflight.read = Null
  /\ Truthy(saved[last.sessionId])
  /\ getRedisKeyWhatsapp(last.sessionId).CREDENTIALS \in DOMAIN redis
  /\ JSONparse(redis[getRedisKeyWhatsapp(last.sessionId).CREDENTIALS].v)
       # saved[last.sessionId].creds

\* C35: after a state.keys.set of useBaileysAuthState that returns, each field t-id
\* whose value in the data is null is in neither the Redis hash nor the keys of the
\* row of the session, and a getKeys(k, t, {id}) returns a map without id.
C35_NullUnsetsKey ==
  [][(last'.op = "state.keys.set" /\ last'.err = "none")
     => \A i \in 1..Len(last'.data) :
          ~Truthy(last'.data[i].value) =>
            LET e == last'.data[i]
                field == FieldName(e.category, e.id)
                get == Store_getKeys([World({}, {}) EXCEPT !.redis = redis', !.db = db'],
                                     last'.sessionId, e.category, {e.id})
            IN /\ field \notin DOMAIN HashOf(redis', last'.sessionId)
               /\ field \notin DOMAIN RowKeysOf(db', last'.sessionId)
               /\ e.id \notin DOMAIN get.ret.m]_vars

\* a state.keys.set with a null value has returned and the field is still in Redis
C35_NullIgnored ==
  /\ last.op = "state.keys.set" /\ last.err = "none"
  /\ \E i \in 1..Len(last.data) :
       /\ last.data[i].value = Null
       /\ FieldName(last.data[i].category, last.data[i].id)
            \in DOMAIN HashOf(redis, last.sessionId)

\* what getKeys(s, type, {id}) returns from the Redis contents rds and the rows d
GetKeysIn(rds, d, s, type, id) ==
  Store_getKeys([World({}, {}) EXCEPT !.redis = rds, !.db = d], s, type, {id}).ret

\* C38: two distinct (type, id) pairs have distinct field names, and a setKeys that
\* returns leaves what getKeys returns for every pair that its data does not name
\* as it was.
C38_FieldsDoNotCollide ==
  [][(last'.op = "setKeys" /\ last'.err = "none")
     => \A p \in KeyPairs :
          ~Named(last'.data, p[1], p[2]) =>
            /\ \A i \in 1..Len(last'.data) :
                 FieldName(last'.data[i].category, last'.data[i].id) # FieldName(p[1], p[2])
            /\ GetKeysIn(redis', db', last'.sessionId, p[1], p[2])
                 = GetKeysIn(redis, db, last'.sessionId, p[1], p[2])]_vars

\* a getKeys of one pair has returned the value that a setKeys stored for another
C38_OtherPairsValue ==
  /\ last.op = "getKeys" /\ last.err = "none"
  /\ last.type = "sender-key" /\ last.ids = {"memory-1"}
  /\ last.after.op = "setKeys"
  /\ Named(last.after.data, "sender-key-memory", "1")
  /\ "memory-1" \in DOMAIN last.ret.m

\* C40: every saveCreds of session s1 being given a ttl, each Redis entry of s1, creds
\* or keys, carries an expiry in every state, also after the entry has expired and a
\* getCreds has put it back from the database.
C40_TtlKeptOnWarmUp ==
  \A key \in AdapterKeys("s1") \cap DOMAIN redis : redis[key].ttl > 0

\* a getCreds that fell back to the database has returned and the creds entry it
\* wrote to Redis has no expiry
C40_WarmedWithoutTtl ==
  /\ last.op = "getCreds" /\ last.err = "none"
  /\ last.dn > 0
  /\ Truthy(last.ret)
  /\ getRedisKeyWhatsapp("s1").CREDENTIALS \in DOMAIN redis
  /\ redis[getRedisKeyWhatsapp("s1").CREDENTIALS].ttl = 0

\* C20: when useBaileysAuthState is given a ttl, after state.keys.set has stored at
\* least one key of the session, the session's Redis keys hash carries an expiry of
\* ttl seconds.
C20_KeysExpireWithTtl ==
  [][( /\ last'.op = "state.keys.set" /\ last'.err = "none"
       /\ last'.options.ttl > 0
       /\ \E i \in 1..Len(last'.data) : Truthy(last'.data[i].value) )
     => LET key == getRedisKeyWhatsapp(last'.sessionId).KEYS
        IN key \in DOMAIN redis' /\ redis'[key].ttl = last'.options.ttl]_vars

-----------------------------------------------------------------------------
(* Claims on the life of the manager *)

\* C15: once stop() has returned, no sweep of the manager begins until it is started
\* again: a sweep begins only while the manager holds the handle of a timer.
C15_NoSweepAfterStop ==
  [][last'.op = "sweep" => checkInterval]_vars


\* C16: when stop() returns no sweep of the manager is still awaiting Redis, so that
\* no delete and no removal from the tracker by the manager follows the return.
C16_StopAwaitsSweep ==
  last.op = "stop" => inflight.sweeps = << >>


\* the entries that the text under the manager's key holds
Snapshot(rds) == JSONparse(rds[metadataKey].v).a

\* C17: stop() leaves under the manager's key, which is the key of no session, a text
\* holding every entry of the tracker with its four fields, and changes no other
\* entry; start() on a manager whose tracker is empty makes the tracker the entries
\* of that text before the timer is scheduled; saveCreds does not touch the key.
C17_SnapshotRoundTrip ==
  [][/\ last'.op = "stop" =>
          /\ metadataKey \in DOMAIN redis' /\ redis'[metadataKey].t = "string"
          /\ Snapshot(redis') = sessionMetadata
          /\ DOMAIN redis' = DOMAIN redis \cup {metadataKey}
          /\ \A k \in DOMAIN redis \ {metadataKey} : redis'[k] = redis[k]
     /\ (last'.op = "start" /\ sessionMetadata = << >> /\ metadataKey \in DOMAIN redis) =>
          /\ sessionMetadata' = Snapshot(redis)
          /\ checkInterval' /\ timers' = timers + 1
     /\ last'.op = "saveCreds" =>
          /\ metadataKey \in DOMAIN redis' <=> metadataKey \in DOMAIN redis
          /\ metadataKey \in DOMAIN redis => redis'[metadataKey] = redis[metadataKey]
     /\ \A s \in AllSessions :
          metadataKey \notin AdapterKeys(s) \cup {getRedisKeys(s).CREDENTIALS, getRedisKeys(s).KEYS}]_vars

\* a started manager holds the two entries that the text under its key holds, one
\* accessed twice after the clock moved and one with an estimated size, beside the
\* creds of a session
C17_Witness ==
  /\ last.op = "start" /\ metadataKey \in DOMAIN redis
  /\ sessionMetadata = Snapshot(redis) /\ Len(sessionMetadata) = 2
  /\ \E i \in 1..2 : sessionMetadata[i].accessCount > 1 /\ sessionMetadata[i].lastAccess > 0
  /\ \E i \in 1..2 : sessionMetadata[i].estimatedSize > 0
  /\ getRedisKeyWhatsapp("s1").CREDENTIALS \in DOMAIN redis


\* C29: trackAccess(k, size) leaves k tracked with lastAccess the current time, with
\* accessCount one more than it had (1 for a new entry), and with estimatedSize the
\* size given when it is above 0 and else the one it had (0 for a new entry); the
\* entries of the other sessions, their order, Redis and the database are unchanged.
C29_TrackAccess ==
  [][last'.op = "trackAccess" =>
       LET k == last'.sessionId
           size == last'.estimatedSize
           was == k \in Tracked(sessionMetadata)
           m == MapGet(sessionMetadata', k)
       IN /\ k \in Tracked(sessionMetadata')
          /\ m.lastAccess = now
          /\ m.accessCount = (IF was THEN MapGet(sessionMetadata, k).accessCount ELSE 0) + 1
          /\ m.estimatedSize =
               IF size > 0 THEN size
               ELSE IF was THEN MapGet(sessionMetadata, k).estimatedSize ELSE 0
          /\ MapDelete(sessionMetadata', k) = MapDelete(sessionMetadata, k)
          /\ Len(sessionMetadata') = Len(sessionMetadata) + (IF was THEN 0 ELSE 1)
          /\ redis' = redis /\ db' = db]_vars

\* a session tracked with a size is tracked again without one, later, beside another
\* tracked session and creds in Redis
C29_Witness ==
  /\ last.op = "trackAccess" /\ last.estimatedSize = 0
  /\ LET m == MapGet(sessionMetadata, last.sessionId)
     IN m.estimatedSize > 0 /\ m.accessCount > 1 /\ m.lastAccess > 0
  /\ Len(sessionMetadata) = 2
  /\ DOMAIN redis # {}


\* C30: for a session tracked before and after a step of the manager, neither
\* accessCount nor lastAccess is lower after the step than before it.
C30_CountersNeverDecrease ==
  [][\A k \in Tracked(sessionMetadata) \cap Tracked(sessionMetadata') :
       /\ MapGet(sessionMetadata', k).accessCount >= MapGet(sessionMetadata, k).accessCount
       /\ MapGet(sessionMetadata', k).lastAccess >= MapGet(sessionMetadata, k).lastAccess]_vars


\* the steps of a sweep's trace that evict session k, with or without success
TriedAt(trace, pass, k) ==
  {j \in 1..Len(trace) : trace[j].pass = pass /\ trace[j].sessionId = k}

\* C27: a sweep in which a DEL fails does not throw. After a failed eviction of the
\* LRU pass the loop goes on with the memory query of the next candidate; every
\* session idle for too long that the LRU pass has not removed is tried by the
\* inactivity pass, also after a failed eviction; and a session is gone from the
\* tracker only if one of its evictions succeeded, its entry being else unchanged.
C27_FailedDeleteGoesOn ==
  [][last'.op = "sweep" =>
       LET trace == last'.trace
           gone(k) == \E j \in TriedAt(trace, "lru", k) \cup TriedAt(trace, "inactive", k) :
                        ~trace[j].failed
       IN /\ last'.err = "none"
          /\ \A j \in 1..Len(trace) :
               (trace[j].pass = "lru" /\ trace[j].failed
                  /\ trace[j].sessionId # Candidates[Len(Candidates)]) =>
                 j < Len(trace) /\ trace[j + 1].pass = "memory"
          /\ \A i \in 1..Len(sessionMetadata) :
               LET m == sessionMetadata[i]
               IN /\ (Inactive(m) /\ \A j \in TriedAt(trace, "lru", m.sessionId) : trace[j].failed)
                       => TriedAt(trace, "inactive", m.sessionId) # {}
                  /\ IF gone(m.sessionId) THEN m.sessionId \notin Tracked(sessionMetadata')
                     ELSE /\ m.sessionId \in Tracked(sessionMetadata')
                          /\ MapGet(sessionMetadata', m.sessionId) = m]_vars

\* the first eviction of an LRU pass has failed, the next candidates were evicted,
\* and the session whose DEL failed is still tracked
C27_Witness ==
  /\ last.op = "sweep"
  /\ \E j \in 1..Len(last.trace) :
       /\ last.trace[j].pass = "lru" /\ last.trace[j].failed
       /\ last.trace[j].sessionId \in Tracked(sessionMetadata)
       /\ \E l \in (j + 1)..Len(last.trace) :
            last.trace[l].pass = "lru" /\ ~last.trace[l].failed

\* session ids in the order of their strings
IdRank(k) == CHOOSE i \in 1..3 : <<"s1", "s2", "s3">>[i] = k

\* the entry a is evicted before the entry b: older first, then the less accessed,
\* then the smaller session id
EvictedBefore(a, b) ==
  \/ a.lastAccess < b.lastAccess
  \/ a.lastAccess = b.lastAccess /\ a.accessCount < b.accessCount
  \/ a.lastAccess = b.lastAccess /\ a.accessCount = b.accessCount
       /\ IdRank(a.sessionId) < IdRank(b.sessionId)

\* C28: the sessions that the LRU pass of a sweep evicts are evicted in ascending
\* order of lastAccess, then of accessCount, then of session id, whatever the order
\* of the tracker's entries.
C28_DeterministicOrder ==
  [][last'.op = "sweep" =>
       LET lru == SelectSeq(last'.trace, LAMBDA e : e.pass = "lru")
       IN \A i, j \in 1..Len(lru) :
            i < j => EvictedBefore(MapGet(sessionMetadata, lru[i].sessionId),
                                   MapGet(sessionMetadata, lru[j].sessionId))]_vars


\* what the spec takes for a valid configuration
ValidConfig(c) ==
  /\ c.evictionThreshold \in 0..100
  /\ c.checkIntervalMs > 0
  /\ c.maxMemoryBytes > 0

\* C23: a manager whose configuration is invalid is never constructed, so none is
\* ever started and none sweeps: a scheduled timer implies a valid configuration.
C23_InvalidConfigRejected ==
  timers > 0 \/ last.op = "sweep" => ValidConfig(config)

\* C36: after any sequence of start() and stop(), start() twice in a row included, at
\* most one interval timer of the manager is scheduled, and none is when stop() has
\* returned.
C36_OneTimer ==
  /\ timers <= 1
  /\ last.op = "stop" => timers = 0

\* stop() has returned and a timer of an earlier start() is still scheduled
C36_TimerLeft ==
  /\ last.op = "stop"
  /\ ~checkInterval
  /\ timers > 0

\* C37: at most one sweep of a manager awaits Redis at a time, and a sweep evicts
\* only sessions that are tracked when it evicts them, none that another sweep has
\* evicted already.
C37_SweepsDoNotOverlap ==
  [][/\ Len(inflight'.sweeps) <= 1
     /\ last'.op = "sweep.resume" =>
          \A j \in 1..Len(last'.trace) :
            last'.trace[j].sessionId \in Tracked(sessionMetadata)]_vars

\* two sweeps are in flight, both awaiting the DEL of the same session
C37_TwoSweepsOneSession ==
  /\ Len(inflight.sweeps) = 2
  /\ inflight.sweeps[1].pc = "lruDel"
  /\ inflight.sweeps[2].pc = "lruDel"
  /\ inflight.sweeps[1].sessionId = inflight.sweeps[2].sessionId

\* the sessions of a sequence of session ids
Range(seq) == {seq[x] : x \in 1..Len(seq)}

\* C39: when the LRU pass of a sweep, the only one in flight, evicts session k, no
\* tracked session that is not among the candidates of the pass, and which the pass
\* therefore leaves, has a lastAccess older than the lastAccess k has at that moment,
\* whatever trackAccess calls ran while the pass awaited Redis.
C39_EvictsLeastRecent ==
  [][( /\ last'.op = "sweep.resume"
       /\ Len(inflight.sweeps) = 1
       /\ inflight.sweeps[1].pc = "lruDel"
       /\ inflight.sweeps[1].sessionId \in Tracked(sessionMetadata) )
     => LET c == inflight.sweeps[1]
            k == MapGet(sessionMetadata, c.sessionId)
        IN \A j \in Tracked(sessionMetadata) \ Range(c.sortedSessions) :
             k.lastAccess <= MapGet(sessionMetadata, j).lastAccess]_vars

\* the LRU pass is about to evict a session that was accessed after the pass sorted
\* its candidates, while an older session, tracked since, is not a candidate
C39_RecentAboutToGo ==
  /\ Len(inflight.sweeps) = 1
  /\ inflight.sweeps[1].pc = "lruDel"
  /\ inflight.sweeps[1].sessionId \in Tracked(sessionMetadata)
  /\ MapGet(sessionMetadata, inflight.sweeps[1].sessionId).accessCount = 2
  /\ \E j \in Tracked(sessionMetadata) \ Range(inflight.sweeps[1].sortedSessions) :
       MapGet(sessionMetadata, j).lastAccess
         < MapGet(sessionMetadata, inflight.sweeps[1].sessionId).lastAccess

====
